---------------------------- MODULE Spec2Model ----------------------------
(***************************************************************************)
(* Deduction core of cairo-vm: the EcOp builtin runner                     *)
(* (src/src/vm/runners/builtin_runner/ec_op.rs), the number-theory kernel  *)
(* (src/src/math_utils.rs), the mod-builtin circuit evaluator              *)
(* (src/vm/src/hint_processor/cairo_1_hint_processor/circuit.rs), the      *)
(* resolution of hint references                                           *)
(* (src/src/hint_processor/hint_processor_utils.rs) and the two div_mod_n  *)
(* hints (src/src/hint_processor/builtin_hint_processor/secp/signature.rs).*)
(*                                                                         *)
(* The field prime, the curve parameter beta and the limb width are        *)
(* scaled down so that the state space is finite and enumerable: the       *)
(* curve y^2 = x^3 + x + 6 over GF(7) has prime order 11, as the STARK     *)
(* curve has prime order over its 252-bit prime.                           *)
(***************************************************************************)
EXTENDS Integers, Sequences, FiniteSets, TLC

\* ------------------------------------------------------------------------
\* Program constants (scaled) and model bounds
\* ------------------------------------------------------------------------
PRIME == 7
ALPHA == 1
BETA == 6
CELLS_PER_EC_OP == 7
INPUT_CELLS_PER_EC_OP == 5
\* scalar_height of the EcOpInstanceDef the runner is built from
Height == 2

Felts == 0 .. (PRIME - 1)

\* ------------------------------------------------------------------------
\* math_utils.rs
\* ------------------------------------------------------------------------
RECURSIVE Pow2(_)
Pow2(n) == IF n = 0 THEN 1 ELSE 2 * Pow2(n - 1)

Abs(v) == IF v < 0 THEN -v ELSE v
Signum(v) == IF v > 0 THEN 1 ELSE IF v < 0 THEN -1 ELSE 0

\* A failed assert!/assert_eq! aborts the thread: the value of the call is
\* the panic marker, which every caller propagates.
PanicValue == -1
PanicPoint == <<PanicValue, PanicValue>>

RECURSIVE igcdex_loop(_, _, _, _, _, _)
igcdex_loop(a, b, r, s, x, y) ==
    IF b = 0 THEN <<x, y, a>>
    ELSE LET q == a \div b
             c == a % b
         IN igcdex_loop(b, c, x - q * r, y - q * s, r, s)

\* Faulty variant: the coefficients of the absolute values are returned.
igcdex_unsigned(num_a, num_b) ==
    IF num_a = 0 /\ num_b = 0 THEN <<0, 1, 0>>
    ELSE IF num_a = 0 THEN <<0, 1, Abs(num_b)>>
    ELSE IF num_b = 0 THEN <<1, 0, Abs(num_a)>>
    ELSE igcdex_loop(Abs(num_a), Abs(num_b), 0, 1, 1, 0)

igcdex(num_a, num_b) ==
    IF num_a = 0 /\ num_b = 0 THEN <<0, 1, 0>>
    ELSE IF num_a = 0 THEN <<0, Signum(num_b), Abs(num_b)>>
    ELSE IF num_b = 0 THEN <<Signum(num_a), 0, Abs(num_a)>>
    ELSE LET t == igcdex_loop(Abs(num_a), Abs(num_b), 0, 1, 1, 0)
         IN <<t[1] * Signum(num_a), t[2] * Signum(num_b), t[3]>>

\* mod_floor by zero panics, as assert_eq! does when the gcd is not one.
div_mod(n, m, p) ==
    LET t == igcdex(m, p)
    IN IF t[3] # 1 \/ p = 0 THEN PanicValue ELSE (n * t[1]) % p

\* The assert! of line_slope (line 119) and of ec_double_slope (line 140)
line_slope_assert(point_a, point_b, prime) == point_a[1] - (point_b[1] % prime) # 0
ec_double_slope_assert(point, prime) == point[2] % prime # 0

line_slope(point_a, point_b, prime) ==
    IF ~line_slope_assert(point_a, point_b, prime) THEN PanicValue
    ELSE div_mod(point_a[2] - point_b[2], point_a[1] - point_b[1], prime)

\* Faulty variant: y is left unreduced.
ec_add_unreduced_y(point_a, point_b, prime) ==
    LET m == line_slope(point_a, point_b, prime)
        x == (m * m - point_a[1] - point_b[1]) % prime
        y == m * (point_a[1] - x) - point_a[2]
    IN IF m = PanicValue THEN PanicPoint ELSE <<x, y>>

ec_add(point_a, point_b, prime) ==
    LET m == line_slope(point_a, point_b, prime)
        x == (m * m - point_a[1] - point_b[1]) % prime
        y == (m * (point_a[1] - x) - point_a[2]) % prime
    IN IF m = PanicValue THEN PanicPoint ELSE <<x, y>>

ec_double_slope(point, alpha, prime) ==
    IF ~ec_double_slope_assert(point, prime) THEN PanicValue
    ELSE div_mod(3 * point[1] * point[1] + alpha, 2 * point[2], prime)

ec_double(point, alpha, prime) ==
    LET m == ec_double_slope(point, alpha, prime)
        x == (m * m - 2 * point[1]) % prime
        y == (m * (point[1] - x) - point[2]) % prime
    IN IF m = PanicValue THEN PanicPoint ELSE <<x, y>>

\* What a fallible function of the kernel gives back: Ok(val), or Err(kind)
\* carrying info, or a panic.
KernOk(val) == [kind |-> "Ok", val |-> val, info |-> <<>>]
KernErr(kind, info) == [kind |-> kind, val |-> 0, info |-> info]
KernPanic == KernErr("panic", <<>>)

\* isqrt, lines 13-18: the negative input is refused, x and y are set up.
isqrt_begin(n) == <<n, (n + 1) \div 2>>

\* isqrt, line 22: the next y; div_floor by zero panics.
isqrt_next(x, n) == IF x = 0 THEN PanicValue ELSE (x + n \div x) \div 2

\* isqrt, lines 25-28: the check of the result.
isqrt_end(x, n) ==
    IF ~(x * x <= n /\ n < (x + 1) * (x + 1)) THEN KernErr("FailedToGetSqrt", <<n>>)
    ELSE KernOk(x)

\* Faulty variant: the loop stops one pass early.
isqrt_loop_condition_early(x, y) == y + 1 < x

\* isqrt, line 20: the condition of the while loop.
isqrt_loop_condition(x, y) == y < x

\* Integer::div_mod_floor: the quotient rounded towards minus infinity and
\* the remainder, which takes the sign of the divisor.
div_mod_floor(x, y) ==
    LET q == IF y > 0 THEN x \div y ELSE (-x) \div (-y)
    IN <<q, x - q * y>>

\* Faulty variant: the remainder is tested before the divisor.
safe_div_remainder_first(x, y) ==
    IF y = 0 /\ x # 0 THEN KernErr("SafeDivFail", <<x, y>>)
    ELSE IF y = 0 THEN KernErr("DividedByZero", <<>>)
    ELSE IF div_mod_floor(x, y)[2] # 0 THEN KernErr("SafeDivFail", <<x, y>>)
    ELSE KernOk(div_mod_floor(x, y)[1])

\* safe_div on field elements
safe_div(x, y) ==
    IF y = 0 THEN KernErr("DividedByZero", <<>>)
    ELSE IF div_mod_floor(x, y)[2] # 0 THEN KernErr("SafeDivFail", <<x, y>>)
    ELSE KernOk(div_mod_floor(x, y)[1])

safe_div_usize(x, y) ==
    IF y = 0 THEN KernErr("DividedByZero", <<>>)
    ELSE IF div_mod_floor(x, y)[2] # 0 THEN KernErr("SafeDivFailUsize", <<x, y>>)
    ELSE KernOk(div_mod_floor(x, y)[1])

\* ------------------------------------------------------------------------
\* secp/signature.rs
\* ------------------------------------------------------------------------
\* safe_div on big integers, private to signature.rs
safe_div_bigint(x, y) ==
    IF y = 0 THEN KernErr("DividedByZero", <<>>)
    ELSE IF div_mod_floor(x, y)[2] # 0 THEN KernErr("SafeDivFailBigInt", <<x, y>>)
    ELSE KernOk(div_mod_floor(x, y)[1])

\* What a hint gives back: Ok(()), or Err(kind) carrying info, or a panic.
HintOk == [kind |-> "Ok", info |-> <<>>]
HintErr(kind, info) == [kind |-> kind, info |-> info]

\* An entry of the constants table, of the scope or of the ids: absent, or
\* the value it holds.
Absent == [some |-> FALSE, v |-> 0]
Present(v) == [some |-> TRUE, v |-> v]

\* The names of the constants N is put together from, in the order they are
\* looked up
NConstants == <<"BASE_86", "N0", "N1", "N2">>

\* lines 42-61 and 81-100: n2 * base^2 + n1 * base + n0, or the first
\* constant that is missing.
secp_n(constants) ==
    LET missing == {i \in DOMAIN NConstants : ~constants[NConstants[i]].some}
        first == CHOOSE i \in missing : \A j \in missing : i <= j
        base == constants["BASE_86"].v
    IN IF missing # {} THEN [out |-> HintErr("MissingConstant", <<NConstants[first]>>), n |-> 0]
       ELSE [out |-> HintOk,
             n |-> constants["N2"].v * base * base + constants["N1"].v * base
                       + constants["N0"].v]

\* div_mod_n_packed_divmod, lines 63-68, with a, b and n at hand
packed_divmod_with(a, b, n, exec_scopes) ==
    IF div_mod(a, b, n) = PanicValue THEN [out |-> HintErr("panic", <<>>), scopes |-> exec_scopes]
    ELSE [out |-> HintOk,
          scopes |-> [exec_scopes EXCEPT !["a"] = Present(a), !["b"] = Present(b),
                                         !["value"] = Present(div_mod(a, b, n)),
                                         !["res"] = Present(div_mod(a, b, n))]]

\* pack_from_var_name fails for an ids variable that cannot be read.
div_mod_n_packed_divmod(ids, exec_scopes, constants) ==
    IF ~ids["a"].some THEN [out |-> HintErr("FailedToGetIds", <<"a">>), scopes |-> exec_scopes]
    ELSE IF ~ids["b"].some
    THEN [out |-> HintErr("FailedToGetIds", <<"b">>), scopes |-> exec_scopes]
    ELSE IF secp_n(constants).out # HintOk
    THEN [out |-> secp_n(constants).out, scopes |-> exec_scopes]
    ELSE packed_divmod_with(ids["a"].v, ids["b"].v, secp_n(constants).n, exec_scopes)

\* div_mod_n_safe_div, lines 102-105, with the quotient at hand
safe_div_insert(q, exec_scopes) ==
    IF q.kind # "Ok" THEN [out |-> HintErr(q.kind, q.info), scopes |-> exec_scopes]
    ELSE [out |-> HintOk, scopes |-> [exec_scopes EXCEPT !["value"] = Present(q.val)]]

\* Faulty variant: value is cleared before the division is tried.
div_mod_n_safe_div_clears_value(exec_scopes, constants) ==
    IF \E name \in {"a", "b", "res"} : ~exec_scopes[name].some
    THEN [out |-> HintErr("VariableNotInScope", <<>>),
          scopes |-> [exec_scopes EXCEPT !["value"] = Absent]]
    ELSE IF secp_n(constants).out # HintOk
    THEN [out |-> secp_n(constants).out, scopes |-> [exec_scopes EXCEPT !["value"] = Absent]]
    ELSE safe_div_insert(safe_div_bigint(exec_scopes["res"].v * exec_scopes["b"].v
                                             - exec_scopes["a"].v, secp_n(constants).n),
                         [exec_scopes EXCEPT !["value"] = Absent])

div_mod_n_safe_div(exec_scopes, constants) ==
    IF ~exec_scopes["a"].some
    THEN [out |-> HintErr("VariableNotInScope", <<"a">>), scopes |-> exec_scopes]
    ELSE IF ~exec_scopes["b"].some
    THEN [out |-> HintErr("VariableNotInScope", <<"b">>), scopes |-> exec_scopes]
    ELSE IF ~exec_scopes["res"].some
    THEN [out |-> HintErr("VariableNotInScope", <<"res">>), scopes |-> exec_scopes]
    ELSE IF secp_n(constants).out # HintOk
    THEN [out |-> secp_n(constants).out, scopes |-> exec_scopes]
    ELSE safe_div_insert(safe_div_bigint(exec_scopes["res"].v * exec_scopes["b"].v
                                             - exec_scopes["a"].v, secp_n(constants).n),
                         exec_scopes)

\* ------------------------------------------------------------------------
\* ec_op.rs: the EcOp builtin runner
\* ------------------------------------------------------------------------
\* A memory cell: unwritten, a field element, or a relocatable address.
NoCell == [tag |-> "none", v |-> 0]
IntCell(n) == [tag |-> "int", v |-> n]
RelCell == [tag |-> "rel", v |-> 0]
CellValues == {IntCell(n) : n \in Felts} \cup {RelCell}

\* The builtin segment holds two instances; the second one is the one the
\* run writes to, the first one stays unwritten.
SegOffsets == 0 .. (2 * CELLS_PER_EC_OP - 1)
InstOffsets == CELLS_PER_EC_OP .. (2 * CELLS_PER_EC_OP - 1)
InputOffsets == CELLS_PER_EC_OP .. (CELLS_PER_EC_OP + INPUT_CELLS_PER_EC_OP - 1)

MemoryGet(mem, off) == IF off \in DOMAIN mem THEN mem[off] ELSE NoCell

\* Faulty variant: beta left out of the curve equation.
point_on_curve_without_beta(x, y, alpha, beta) ==
    (y * y) % PRIME = (((x * x * x) % PRIME) + ((alpha * x) % PRIME)) % PRIME

point_on_curve(x, y, alpha, beta) ==
    (y * y) % PRIME = ((((x * x * x) % PRIME) + ((alpha * x) % PRIME)) + beta) % PRIME

\* Faulty variant: the x coordinates are compared only when a point is added.
ec_op_iter_check_on_add(slope, partial_sum_b, doubled_point_b, alpha, prime) ==
    IF (slope % 2) # 0 /\ doubled_point_b[1] - partial_sum_b[1] = 0
    THEN [kind |-> "EcOpSameXCoordinate", slope |-> slope,
          ps |-> partial_sum_b, dp |-> doubled_point_b]
    ELSE LET ps2 == IF (slope % 2) # 0
                    THEN ec_add(partial_sum_b, doubled_point_b, prime)
                    ELSE partial_sum_b
             dp2 == ec_double(doubled_point_b, alpha, prime)
         IN IF ps2 = PanicPoint \/ dp2 = PanicPoint
            THEN [kind |-> "panic", slope |-> slope,
                  ps |-> partial_sum_b, dp |-> doubled_point_b]
            ELSE [kind |-> "cont", slope |-> slope \div 2, ps |-> ps2, dp |-> dp2]

\* One pass of the body of the for loop of ec_op_impl.
ec_op_iter(slope, partial_sum_b, doubled_point_b, alpha, prime) ==
    IF doubled_point_b[1] - partial_sum_b[1] = 0
    THEN [kind |-> "EcOpSameXCoordinate", slope |-> slope,
          ps |-> partial_sum_b, dp |-> doubled_point_b]
    ELSE LET ps2 == IF (slope % 2) # 0
                    THEN ec_add(partial_sum_b, doubled_point_b, prime)
                    ELSE partial_sum_b
             dp2 == ec_double(doubled_point_b, alpha, prime)
         IN IF ps2 = PanicPoint \/ dp2 = PanicPoint
            THEN [kind |-> "panic", slope |-> slope,
                  ps |-> partial_sum_b, dp |-> doubled_point_b]
            ELSE [kind |-> "cont", slope |-> slope \div 2, ps |-> ps2, dp |-> dp2]

RECURSIVE ec_op_loop(_, _, _, _, _, _)
ec_op_loop(slope, partial_sum_b, doubled_point_b, alpha, prime, left) ==
    IF left = 0
    THEN [kind |-> "Ok", slope |-> slope, ps |-> partial_sum_b, dp |-> doubled_point_b]
    ELSE LET r == ec_op_iter(slope, partial_sum_b, doubled_point_b, alpha, prime)
         IN IF r.kind = "cont"
            THEN ec_op_loop(r.slope, r.ps, r.dp, alpha, prime, left - 1)
            ELSE r

ec_op_impl(partial_sum, doubled_point, m, alpha, prime, height) ==
    ec_op_loop(m, partial_sum, doubled_point, alpha, prime, height)

\* Faulty variant: an unwritten input cell is read as the field element 0.
RECURSIVE read_input_cells_default_zero(_, _, _, _, _)
read_input_cells_default_zero(mem, instance, i, input_cells, reads) ==
    IF i = INPUT_CELLS_PER_EC_OP
    THEN [kind |-> "cells", cells |-> input_cells, reads |-> reads]
    ELSE LET c == MemoryGet(mem, instance + i)
             rd == reads \cup {instance + i}
         IN IF c.tag = "rel"
            THEN [kind |-> "ExpectedInteger", cells |-> input_cells, reads |-> rd]
            ELSE read_input_cells_default_zero(mem, instance, i + 1,
                                               Append(input_cells, c.v), rd)

\* The loop that collects the input cells: the first cell that is unwritten
\* ends the call with Ok(None), the first one that is not an integer with
\* Err(ExpectedInteger).
RECURSIVE read_input_cells(_, _, _, _, _)
read_input_cells(mem, instance, i, input_cells, reads) ==
    IF i = INPUT_CELLS_PER_EC_OP
    THEN [kind |-> "cells", cells |-> input_cells, reads |-> reads]
    ELSE LET c == MemoryGet(mem, instance + i)
             rd == reads \cup {instance + i}
         IN IF c.tag = "none" THEN [kind |-> "None", cells |-> input_cells, reads |-> rd]
            ELSE IF c.tag = "int"
            THEN read_input_cells(mem, instance, i + 1, Append(input_cells, c.v), rd)
            ELSE [kind |-> "ExpectedInteger", cells |-> input_cells, reads |-> rd]

\* Faulty variant: the indices of Q, EC_POINT_INDICES[1], taken for the output's.
is_output_index_of_q(index) == index = 2 \/ index = 3

is_output_index(index) == index = 5 \/ index = 6

output_coordinate(index, result) ==
    IF index - INPUT_CELLS_PER_EC_OP = 0 THEN result[1] % PRIME ELSE result[2] % PRIME

\* deduce_memory_cell as a function of the memory: the outcome, the value of
\* Ok(Some(value)), and the cells the call has read.
DeduceResult(kind, val, reads) == [kind |-> kind, val |-> val, reads |-> reads]

deduce_memory_cell(address, mem) ==
    LET index == address % CELLS_PER_EC_OP
        instance == address - index
        inp == read_input_cells(mem, instance, 0, <<>>, {})
        c == inp.cells
    IN IF ~is_output_index(index) THEN DeduceResult("None", 0, {})
       ELSE IF inp.kind # "cells" THEN DeduceResult(inp.kind, 0, inp.reads)
       ELSE IF ~point_on_curve(c[1], c[2], ALPHA, BETA)
       THEN DeduceResult("PointNotOnCurve", 0, inp.reads)
       ELSE LET r == ec_op_impl(<<c[1], c[2]>>, <<c[3], c[4]>>, c[5], ALPHA, PRIME, Height)
            IN IF r.kind = "Ok"
               THEN DeduceResult("Value", output_coordinate(index, r.ps), inp.reads)
               ELSE DeduceResult(r.kind, 0, inp.reads)

\* ------------------------------------------------------------------------
\* circuit.rs: the mod-builtin circuit evaluator
\* ------------------------------------------------------------------------
OFFSETS_PER_GATE == 3
LIMBS_COUNT == 4
MOD_BUILTIN_INSTACE_SIZE == 7
\* Width of a limb (96 in the source); a circuit value has LIMBS_COUNT limbs.
LIMB_BITS == 1
\* Largest value the run finds stored in the values buffer
MaxVal == 3

LimbBase == Pow2(LIMB_BITS)

\* Option::None of a circuit value
Unknown == -1

\* A pointer cell: a relocatable with the given offset in its segment.
PtrCell(off) == [tag |-> "rel", v |-> off]

\* Faulty variant: a limb cell that holds an address counts as a zero limb.
RECURSIVE read_limbs_address_as_zero(_, _, _, _)
read_limbs_address_as_zero(mem, add, l, res) ==
    IF l < 0 THEN res
    ELSE LET c == MemoryGet(mem, add + l)
         IN IF c.tag = "none" THEN Unknown
            ELSE read_limbs_address_as_zero(mem, add, l - 1,
                     res * LimbBase + (IF c.tag = "int" THEN c.v ELSE 0))

\* read_circuit_value: limbs 3, 2, 1, 0, each shifted in from the right.
RECURSIVE read_limbs(_, _, _, _)
read_limbs(mem, add, l, res) ==
    IF l < 0 THEN res
    ELSE LET c == MemoryGet(mem, add + l)
         IN IF c.tag = "int"
            THEN read_limbs(mem, add, l - 1, res * LimbBase + c.v)
            ELSE Unknown

read_circuit_value(mem, add) == read_limbs(mem, add, LIMBS_COUNT - 1, 0)

\* Memory::insert through vm.insert_value: refused when the cell holds
\* another value.
InsertValue(mem, a, cell) ==
    IF a \notin DOMAIN mem THEN [ok |-> FALSE, mem |-> mem]
    ELSE IF mem[a].tag = "none" THEN [ok |-> TRUE, mem |-> [mem EXCEPT ![a] = cell]]
    ELSE [ok |-> mem[a] = cell, mem |-> mem]

\* write_circuit_value: limb l is value mod 2^LIMB_BITS, the rest goes on; the
\* unwrap() of a refused insert panics, with the limbs before it written.
RECURSIVE write_limbs(_, _, _, _)
write_limbs(mem, add, l, value) ==
    IF l = LIMBS_COUNT THEN [ok |-> TRUE, mem |-> mem]
    ELSE LET new_value == value \div LimbBase
             rem == value % LimbBase
             w == InsertValue(mem, add + l, IntCell(rem))
         IN IF w.ok THEN write_limbs(w.mem, add, l + 1, new_value) ELSE w

write_circuit_value(mem, add, value) == write_limbs(mem, add, 0, value)

\* Integer::extended_gcd of num-integer, as find_inverse calls it:
\* value.extended_gcd(modulus) gives gcd and x with x*value + y*modulus = gcd.
RECURSIVE extended_gcd_loop(_, _, _, _, _, _)
extended_gcd_loop(r0, r1, s0, s1, t0, t1) ==
    IF r0 = 0 THEN IF r1 >= 0 THEN [gcd |-> r1, x |-> s1, y |-> t1]
                   ELSE [gcd |-> -r1, x |-> -s1, y |-> -t1]
    ELSE LET q == r1 \div r0
         IN extended_gcd_loop(r1 - q * r0, r0, s1 - q * s0, s0, t1 - q * t0, t0)

extended_gcd(a, b) == extended_gcd_loop(b, a, 0, 1, 1, 0)

get_modulus(value, modulus) ==
    LET value_magnitud == Abs(value) % modulus
    IN IF value < 0 THEN modulus - value_magnitud ELSE value_magnitud

\* Faulty variant: the gcd itself is taken for the nullifier.
find_inverse_gcd_nullifier(value, modulus) ==
    LET e == extended_gcd(value, modulus)
    IN IF e.gcd = 1 THEN [success |-> TRUE, res |-> get_modulus(e.x, modulus)]
       ELSE [success |-> FALSE, res |-> e.gcd]

find_inverse(value, modulus) ==
    LET e == extended_gcd(value, modulus)
    IN IF e.gcd = 1 THEN [success |-> TRUE, res |-> get_modulus(e.x, modulus)]
       ELSE [success |-> FALSE, res |-> modulus \div e.gcd]

\* ------------------------------------------------------------------------
\* hint_processor_utils.rs: resolving the references of a hint
\* ------------------------------------------------------------------------
\* Widths of i32 and usize (32 and 64 in the source).
I32_BITS == 3
USIZE_BITS == 6
I32_MIN == -Pow2(I32_BITS - 1)
UsizeModulus == Pow2(USIZE_BITS)

\* Arithmetic overflow panics in a build with overflow checks (debug) and
\* wraps in a build without them (release).
Builds == {"debug", "release"}

\* OffsetValue::Immediate(Felt), OffsetValue::Value(i32),
\* OffsetValue::Reference(Register, i32, bool)
Immediate(v) == [kind |-> "Immediate", register |-> "none", offset |-> v, deref |-> FALSE]
Value(v) == [kind |-> "Value", register |-> "none", offset |-> v, deref |-> FALSE]
Reference(register, offset, deref) ==
    [kind |-> "Reference", register |-> register, offset |-> offset, deref |-> deref]

\* Option<ApTracking>: None, or Some(ApTracking {group, offset})
NoApTracking == [some |-> FALSE, group |-> 0, offset |-> 0]
ApTracking(group, offset) == [some |-> TRUE, group |-> group, offset |-> offset]

\* What a call gives back: Ok(val) or Err(kind), or a panic; reads and regs
\* are the memory cells and the registers it has looked at.
ResolveOk(val, reads, regs) ==
    [kind |-> "Ok", val |-> val, info |-> <<>>, reads |-> reads, regs |-> regs]
ResolveErr(kind, info, reads, regs) ==
    [kind |-> kind, val |-> NoCell, info |-> info, reads |-> reads, regs |-> regs]

\* A relocatable of the execution segment
Addr(off) == [tag |-> "rel", v |-> off]

\* Relocatable::sub_usize
sub_usize(offset, other) ==
    IF other > offset THEN [ok |-> FALSE, v |-> 0] ELSE [ok |-> TRUE, v |-> offset - other]

\* Faulty variant: the tracking groups are not compared.
apply_ap_tracking_correction_any_group(ap, ref_ap_tracking, hint_ap_tracking, build) ==
    IF hint_ap_tracking.offset < ref_ap_tracking.offset /\ build = "debug"
    THEN ResolveErr("panic", <<>>, {}, {"ap"})
    ELSE LET ap_diff == (hint_ap_tracking.offset - ref_ap_tracking.offset) % UsizeModulus
             r == sub_usize(ap, ap_diff)
         IN IF r.ok THEN ResolveOk(Addr(r.v), {}, {"ap"})
            ELSE ResolveErr("FailedToGetIds", <<>>, {}, {"ap"})

apply_ap_tracking_correction(ap, ref_ap_tracking, hint_ap_tracking, build) ==
    IF ref_ap_tracking.group # hint_ap_tracking.group
    THEN ResolveErr("InvalidTrackingGroup",
                    <<ref_ap_tracking.group, hint_ap_tracking.group>>, {}, {"ap"})
    ELSE IF hint_ap_tracking.offset < ref_ap_tracking.offset /\ build = "debug"
    THEN ResolveErr("panic", <<>>, {}, {"ap"})
    ELSE LET ap_diff == (hint_ap_tracking.offset - ref_ap_tracking.offset) % UsizeModulus
             r == sub_usize(ap, ap_diff)
         IN IF r.ok THEN ResolveOk(Addr(r.v), {}, {"ap"})
            ELSE ResolveErr("FailedToGetIds", <<>>, {}, {"ap"})

\* offset.abs() as usize: i32::MIN has no absolute value.
abs_as_usize(offset) == IF offset = I32_MIN THEN UsizeModulus + I32_MIN ELSE Abs(offset)

\* get_offset_value_reference, lines 154-165: the offset applied to the base
\* address, and the dereference.
offset_from_base(mem, base_addr, offset_value, build) ==
    LET offset == offset_value.offset
        cell == MemoryGet(mem, base_addr.val.v + offset)
    IN IF base_addr.kind # "Ok" THEN base_addr
       ELSE IF offset = I32_MIN /\ build = "debug"
       THEN ResolveErr("panic", <<>>, {}, base_addr.regs)
       ELSE IF offset < 0 /\ base_addr.val.v < abs_as_usize(offset)
       THEN ResolveErr("FailedToGetIds", <<>>, {}, base_addr.regs)
       ELSE IF offset_value.deref
       THEN IF cell.tag = "none"
            THEN ResolveErr("FailedToGetIds", <<>>,
                            {base_addr.val.v + offset}, base_addr.regs)
            ELSE ResolveOk(cell, {base_addr.val.v + offset}, base_addr.regs)
       ELSE ResolveOk(Addr(base_addr.val.v + offset), {}, base_addr.regs)

get_offset_value_reference(mem, run_context, hint_reference, hint_ap_tracking, offset_value, build) ==
    IF offset_value.kind # "Reference" THEN ResolveErr("FailedToGetIds", <<>>, {}, {})
    ELSE offset_from_base(mem,
             IF offset_value.register = "FP"
             THEN ResolveOk(Addr(run_context.fp), {}, {"fp"})
             ELSE IF ~hint_reference.ap_tracking_data.some
             THEN ResolveErr("NoneApTrackingData", <<>>, {}, {})
             ELSE apply_ap_tracking_correction(run_context.ap,
                      hint_reference.ap_tracking_data, hint_ap_tracking, build),
             offset_value, build)

\* compute_addr_from_reference, lines 65-97: the two resolved offsets put
\* together.
add_offsets(hint_reference, o1, o2) ==
    LET reads == o1.reads \cup o2.reads
        regs == o1.regs \cup o2.regs
    IN IF o1.kind # "Ok" THEN o1
       ELSE IF o1.val.tag # "rel"
       THEN ResolveErr("ExpectedRelocatable", <<>>, o1.reads, o1.regs)
       ELSE IF hint_reference.offset2.kind = "Reference"
       THEN IF o2.kind # "Ok" THEN ResolveErr(o2.kind, o2.info, reads, regs)
            ELSE IF o2.val.tag # "int"
            THEN ResolveErr("ExpectedInteger", <<>>, reads, regs)
            ELSE ResolveOk(Addr(o1.val.v + o2.val.v), reads, regs)
       ELSE IF hint_reference.offset2.kind = "Value"
       THEN ResolveOk(Addr(o1.val.v + hint_reference.offset2.offset), o1.reads, o1.regs)
       ELSE ResolveErr("NoRegisterInReference", <<>>, o1.reads, o1.regs)

\* Faulty variant: the first offset goes to get_offset_value_reference
\* whatever its kind.
compute_addr_from_reference_unguarded(mem, run_context, hint_reference, hint_ap_tracking, build) ==
    add_offsets(hint_reference,
        get_offset_value_reference(mem, run_context, hint_reference,
            hint_ap_tracking, hint_reference.offset1, build),
        get_offset_value_reference(mem, run_context, hint_reference,
            hint_ap_tracking, hint_reference.offset2, build))

compute_addr_from_reference(mem, run_context, hint_reference, hint_ap_tracking, build) ==
    IF hint_reference.offset1.kind # "Reference"
    THEN ResolveErr("NoRegisterInReference", <<>>, {}, {})
    ELSE add_offsets(hint_reference,
             get_offset_value_reference(mem, run_context, hint_reference,
                 hint_ap_tracking, hint_reference.offset1, build),
             get_offset_value_reference(mem, run_context, hint_reference,
                 hint_ap_tracking, hint_reference.offset2, build))

\* get_integer_from_reference, lines 37-40: the integer at the computed
\* address.
get_integer_at(mem, var_addr) ==
    LET cell == MemoryGet(mem, var_addr.val.v)
        reads == var_addr.reads \cup {var_addr.val.v}
    IN IF var_addr.kind # "Ok" THEN var_addr
       ELSE IF cell.tag = "int" THEN ResolveOk(cell, reads, var_addr.regs)
       ELSE ResolveErr("ExpectedInteger", <<>>, reads, var_addr.regs)

\* Faulty variant: the immediate is returned only next to a constant second
\* offset.
get_integer_from_reference_value_only(mem, run_context, hint_reference, hint_ap_tracking, build) ==
    IF hint_reference.offset1.kind = "Immediate" /\ hint_reference.offset2.kind = "Value"
    THEN ResolveOk(IntCell(hint_reference.offset1.offset), {}, {})
    ELSE get_integer_at(mem, compute_addr_from_reference(mem, run_context,
                                 hint_reference, hint_ap_tracking, build))

get_integer_from_reference(mem, run_context, hint_reference, hint_ap_tracking, build) ==
    IF hint_reference.offset1.kind = "Immediate"
    THEN ResolveOk(IntCell(hint_reference.offset1.offset), {}, {})
    ELSE get_integer_at(mem, compute_addr_from_reference(mem, run_context,
                                 hint_reference, hint_ap_tracking, build))

\* get_ptr_from_reference, lines 50-54: the address, or the relocatable it
\* holds.
get_ptr_at(mem, hint_reference, var_addr) ==
    LET cell == MemoryGet(mem, var_addr.val.v)
        reads == var_addr.reads \cup {var_addr.val.v}
    IN IF var_addr.kind # "Ok" THEN var_addr
       ELSE IF ~hint_reference.dereference THEN var_addr
       ELSE IF cell.tag = "rel" THEN ResolveOk(cell, reads, var_addr.regs)
       ELSE ResolveErr("ExpectedRelocatable", <<>>, reads, var_addr.regs)

\* Faulty variant: the computed address is dereferenced whatever the flag.
get_ptr_from_reference_always_deref(mem, run_context, hint_reference, hint_ap_tracking, build) ==
    get_ptr_at(mem, [hint_reference EXCEPT !.dereference = TRUE],
               compute_addr_from_reference(mem, run_context, hint_reference,
                                           hint_ap_tracking, build))

get_ptr_from_reference(mem, run_context, hint_reference, hint_ap_tracking, build) ==
    get_ptr_at(mem, hint_reference, compute_addr_from_reference(mem, run_context,
                                        hint_reference, hint_ap_tracking, build))

\* insert_value_from_reference, line 23: the write at the computed address.
insert_value_at(value, mem, var_addr) ==
    LET w == InsertValue(mem, var_addr.val.v, value)
    IN IF var_addr.kind # "Ok" THEN [out |-> var_addr, mem |-> mem]
       ELSE IF w.ok THEN [out |-> ResolveOk(NoCell, var_addr.reads, var_addr.regs),
                          mem |-> w.mem]
       ELSE [out |-> ResolveErr("InconsistentMemory", <<>>, var_addr.reads, var_addr.regs),
             mem |-> mem]

\* Faulty variant: the write goes to cell 0 whatever the reference resolves to.
insert_value_from_reference_default_cell(value, mem, run_context, hint_reference, hint_ap_tracking, build) ==
    insert_value_at(value, mem, ResolveOk(Addr(0), {}, {}))

\* The memory insert_value_from_reference leaves, and what it returns.
insert_value_from_reference(value, mem, run_context, hint_reference, hint_ap_tracking, build) ==
    insert_value_at(value, mem, compute_addr_from_reference(mem, run_context,
                                    hint_reference, hint_ap_tracking, build))

\* ------------------------------------------------------------------------
\* State
\* ------------------------------------------------------------------------
VARIABLES
    memory,     \* a memory segment (the EcOp builtin's, or the one the
                \* references of a hint resolve in): offset -> cell
    deduced,    \* output offset -> the value a probe has returned for it
    ecpc,       \* position of a running deduce_memory_cell call
    ecAddr,     \* the address of that call
    ecIter,     \* loop passes of ec_op_impl completed
    ecState,    \* slope, partial_sum_b, doubled_point_b of ec_op_impl
    ecOut,      \* what the call returned
    values,     \* the circuit's values buffer: cell offset -> cell
    add_gates,  \* the add-mod offsets: one <<lhs, rhs, res>> per gate
    mul_gates,  \* the mul-mod offsets: one <<lhs, rhs, res>> per gate
    addInst,    \* the add-mod builtin's instances: cell offset -> cell
    mulInst,    \* the mul-mod builtin's instances: cell offset -> cell
    cpc,        \* position of a running eval_circuit call
    gateIdx,    \* addmod_idx, mulmod_idx, first_failure_idx and modulus of compute_gates
    cOut,       \* what eval_circuit returned
    run_context,       \* offsets of the fp and ap registers
    hint_reference,    \* the HintReference being resolved
    hint_ap_tracking,  \* the ApTracking of the executing hint
    rpc,        \* the resolving function that was called, or "idle"
    rOut,       \* what it returned
    kIn,        \* the function of the kernel under call, and its arguments
    kpc,        \* position of that call
    kLoc,       \* the locals of that call: x and y of isqrt's loop, the memory a
                \* write has left
    kOut,       \* what the call returned
    ids,        \* the packed values of ids.a and ids.b
    constants,  \* the constants table: name -> value
    exec_scopes,  \* the scope the hints share: name -> value
    hpc,        \* the hints run so far
    hOut        \* what the last hint returned

vars == <<memory, deduced, ecpc, ecAddr, ecIter, ecState, ecOut,
          values, add_gates, mul_gates, addInst, mulInst, cpc, gateIdx, cOut,
          run_context, hint_reference, hint_ap_tracking, rpc, rOut,
          kIn, kpc, kLoc, kOut, ids, constants, exec_scopes, hpc, hOut>>

ecVars == <<ecpc, ecAddr, ecIter, ecState, ecOut>>

circVars == <<values, add_gates, mul_gates, addInst, mulInst, cpc, gateIdx, cOut>>

refVars == <<run_context, hint_reference, hint_ap_tracking, rpc, rOut>>

kernVars == <<kIn, kpc, kLoc, kOut>>

hintVars == <<ids, constants, exec_scopes, hpc, hOut>>

NoValue == PRIME
OutputOffsets == {a \in SegOffsets : is_output_index(a % CELLS_PER_EC_OP)}

EcIdleState == [slope |-> 0, ps |-> <<0, 0>>, dp |-> <<0, 0>>]
EcNoOut == [kind |-> "pending", val |-> 0, ps |-> <<0, 0>>, m |-> 0, dp |-> <<0, 0>>]

EcIdle ==
    /\ ecpc = "idle"
    /\ ecAddr = 0
    /\ ecIter = 0
    /\ ecState = EcIdleState
    /\ ecOut = EcNoOut

CircNoOut == [kind |-> "pending", ret |-> <<>>]
GateIdxStart == [addmod_idx |-> 0, mulmod_idx |-> 0, first_failure_idx |-> 0, modulus |-> 0]

CircIdle ==
    /\ values = <<>>
    /\ add_gates = <<>>
    /\ mul_gates = <<>>
    /\ addInst = <<>>
    /\ mulInst = <<>>
    /\ cpc = "idle"
    /\ gateIdx = GateIdxStart
    /\ cOut = CircNoOut

ResolveNoOut == ResolveErr("pending", <<>>, {}, {})

RefIdle ==
    /\ run_context = [fp |-> 0, ap |-> 0]
    /\ hint_reference = [offset1 |-> Value(0), offset2 |-> Value(0),
                         dereference |-> FALSE, ap_tracking_data |-> NoApTracking]
    /\ hint_ap_tracking = ApTracking(0, 0)
    /\ rpc = "idle"
    /\ rOut = ResolveNoOut

KernIdle ==
    /\ kIn = [fn |-> "none", args |-> <<>>]
    /\ kpc = "idle"
    /\ kLoc = <<0, 0>>
    /\ kOut = [kind |-> "pending", val |-> 0]

HintIdle ==
    /\ ids = <<>>
    /\ constants = <<>>
    /\ exec_scopes = <<>>
    /\ hpc = <<>>
    /\ hOut = [kind |-> "pending", info |-> <<>>]

\* ------------------------------------------------------------------------
\* Memory writes and probes of the deduction rule
\* ------------------------------------------------------------------------
InitMem ==
    /\ memory = [a \in SegOffsets |-> NoCell]
    /\ deduced = [a \in OutputOffsets |-> NoValue]
    /\ EcIdle
    /\ RefIdle
    /\ KernIdle
    /\ HintIdle
    /\ CircIdle

\* Memory::insert on an unwritten cell (a second write of a different value
\* is refused by the memory, a second write of the same value changes nothing).
MemoryInsert(a, val) ==
    /\ memory[a].tag = "none"
    /\ memory' = [memory EXCEPT ![a] = val]
    /\ UNCHANGED <<deduced, ecVars, circVars, refVars, kernVars, hintVars>>

\* The step loop probes an address: deduce_memory_cell(address, &memory).
Probe(a) ==
    LET r == deduce_memory_cell(a, memory)
    IN /\ deduced' = IF a \in OutputOffsets /\ r.kind = "Value" /\ deduced[a] = NoValue
                     THEN [deduced EXCEPT ![a] = r.val]
                     ELSE deduced
       /\ UNCHANGED <<memory, ecVars, circVars, refVars, kernVars, hintVars>>


\* The step loop stores a value it has deduced into the (unwritten) output cell.
StoreDeduced(a) ==
    /\ deduced[a] # NoValue
    /\ memory[a].tag = "none"
    /\ memory' = [memory EXCEPT ![a] = IntCell(deduced[a])]
    /\ UNCHANGED <<deduced, ecVars, circVars, refVars, kernVars, hintVars>>

NextMem ==
    \/ \E a \in InputOffsets, val \in CellValues : MemoryInsert(a, val)
    \/ \E a \in SegOffsets : Probe(a)
    \/ \E a \in OutputOffsets : StoreDeduced(a)

SpecMem == InitMem /\ [][NextMem]_vars

InputsOf(a) == {(a - (a % CELLS_PER_EC_OP)) + i : i \in 0 .. (INPUT_CELLS_PER_EC_OP - 1)}

\* C1: once a probe of an output address has returned a value v, every later
\* probe of that address returns v again (not another value, not Ok(None), not
\* an error), whatever has been written in between; a probe leaves memory as
\* it is.
C1_ReprobeStable ==
    [][ /\ \A a \in OutputOffsets :
              deduced[a] # NoValue =>
                  /\ deduced'[a] = deduced[a]
                  /\ deduce_memory_cell(a, memory').kind = "Value"
                  /\ deduce_memory_cell(a, memory').val = deduced[a]
        /\ (deduced' # deduced => memory' = memory) ]_vars

\* A value was deduced for both output cells, and one of them was stored since.
C1_Witness ==
    \E a, b \in OutputOffsets :
        /\ a # b
        /\ deduced[a] # NoValue
        /\ deduced[b] # NoValue
        /\ memory[a].tag = "int"
        /\ deduce_memory_cell(b, memory).val = deduced[b]

\* C2: with an input cell unwritten, deduce_memory_cell of an output address
\* returns Ok(None), whatever the other input cells hold.
C2_MissingInputDefers ==
    \A a \in OutputOffsets :
        (\E c \in InputsOf(a) : MemoryGet(memory, c).tag = "none")
            => deduce_memory_cell(a, memory).kind = "None"

\* C3: for an address that is not an output cell, deduce_memory_cell returns
\* Ok(None) and has read no cell, whatever the memory holds.
C3_NonOutputDefers ==
    \A a \in SegOffsets :
        ~(a % CELLS_PER_EC_OP \in {5, 6})
            => /\ deduce_memory_cell(a, memory).kind = "None"
               /\ deduce_memory_cell(a, memory).reads = {}

\* An instance whose first input is an address and whose P is not a point:
\* an output cell fails, the input cells of the same instance defer.
C3_Witness ==
    \E a \in OutputOffsets :
        /\ \E c \in InputsOf(a) : memory[c].tag = "rel"
        /\ \A c \in InputsOf(a) : memory[c].tag # "none"
        /\ deduce_memory_cell(a, memory).kind = "ExpectedInteger"
        /\ \A c \in InputsOf(a) : deduce_memory_cell(c, memory).kind = "None"


\* ------------------------------------------------------------------------
\* One call of deduce_memory_cell, pass by pass
\* ------------------------------------------------------------------------
EcOut(kind, val, ps, m, dp) == [kind |-> kind, val |-> val, ps |-> ps, m |-> m, dp |-> dp]

\* Every instance whose five input cells hold field elements.
InitEc ==
    /\ \E f \in [InputOffsets -> Felts] :
           memory = [a \in SegOffsets |->
                        IF a \in InputOffsets THEN IntCell(f[a]) ELSE NoCell]
    /\ deduced = [a \in OutputOffsets |-> NoValue]
    /\ EcIdle
    /\ RefIdle
    /\ KernIdle
    /\ HintIdle
    /\ CircIdle

\* deduce_memory_cell up to the call of ec_op_impl.
DeduceBegin(a) ==
    LET index == a % CELLS_PER_EC_OP
        instance == a - index
        inp == read_input_cells(memory, instance, 0, <<>>, {})
        c == inp.cells
    IN /\ ecpc = "idle"
       /\ ecAddr' = a
       /\ ecIter' = 0
       /\ IF ~is_output_index(index)
          THEN /\ ecpc' = "done"
               /\ ecOut' = EcOut("None", 0, <<0, 0>>, 0, <<0, 0>>)
               /\ UNCHANGED ecState
          ELSE IF inp.kind # "cells"
          THEN /\ ecpc' = "done"
               /\ ecOut' = EcOut(inp.kind, 0, <<0, 0>>, 0, <<0, 0>>)
               /\ UNCHANGED ecState
          ELSE IF ~point_on_curve(c[1], c[2], ALPHA, BETA)
          THEN /\ ecpc' = "done"
               /\ ecOut' = EcOut("PointNotOnCurve", 0, <<0, 0>>, 0, <<0, 0>>)
               /\ UNCHANGED ecState
          ELSE /\ ecpc' = "loop"
               /\ ecState' = [slope |-> c[5], ps |-> <<c[1], c[2]>>, dp |-> <<c[3], c[4]>>]
               /\ UNCHANGED ecOut
       /\ UNCHANGED <<memory, deduced, circVars, refVars, kernVars, hintVars>>

\* One pass of the for loop of ec_op_impl.
EcOpIter ==
    LET r == ec_op_iter(ecState.slope, ecState.ps, ecState.dp, ALPHA, PRIME)
        m == memory[(ecAddr - (ecAddr % CELLS_PER_EC_OP)) + 4].v
    IN /\ ecpc = "loop"
       /\ ecIter < Height
       /\ IF r.kind = "cont"
          THEN /\ ecState' = [slope |-> r.slope, ps |-> r.ps, dp |-> r.dp]
               /\ ecIter' = ecIter + 1
               /\ UNCHANGED <<ecpc, ecOut>>
          ELSE /\ ecpc' = "done"
               /\ ecOut' = EcOut(r.kind, 0, r.ps, m, r.dp)
               /\ UNCHANGED <<ecState, ecIter>>
       /\ UNCHANGED <<memory, deduced, ecAddr, circVars, refVars, kernVars, hintVars>>

\* ec_op_impl returns Ok(partial_sum_b); deduce_memory_cell picks the coordinate.
DeduceEnd ==
    /\ ecpc = "loop"
    /\ ecIter = Height
    /\ ecpc' = "done"
    /\ ecOut' = EcOut("Value", output_coordinate(ecAddr % CELLS_PER_EC_OP, ecState.ps),
                      <<0, 0>>, 0, <<0, 0>>)
    /\ UNCHANGED <<memory, deduced, ecAddr, ecIter, ecState, circVars, refVars, kernVars, hintVars>>

NextEc ==
    \/ \E a \in OutputOffsets \cap InstOffsets : DeduceBegin(a)
    \/ EcOpIter
    \/ DeduceEnd

SpecEc == InitEc /\ [][NextEc]_vars

\* The inputs of the running call.
EcInstance == ecAddr - (ecAddr % CELLS_PER_EC_OP)
EcP == <<memory[EcInstance].v, memory[EcInstance + 1].v>>
EcQ == <<memory[EcInstance + 2].v, memory[EcInstance + 3].v>>
EcM == memory[EcInstance + 4].v

\* The pass-by-pass call and the function deduce_memory_cell agree.
EcRunAgrees ==
    ecpc = "done" =>
        /\ ecOut.kind = deduce_memory_cell(ecAddr, memory).kind
        /\ ecOut.val = deduce_memory_cell(ecAddr, memory).val

\* ------------------------------------------------------------------------
\* The reference group law of y^2 = x^3 + ALPHA*x + BETA over GF(PRIME):
\* chord and tangent with a point at infinity, m*Q by m successive additions.
\* ------------------------------------------------------------------------
Infinity == <<PRIME, PRIME>>

RefInverse(d) == CHOOSE s \in Felts : (s * d) % PRIME = 1

RefAdd(A, B) ==
    IF A = Infinity THEN B
    ELSE IF B = Infinity THEN A
    ELSE IF A[1] = B[1] /\ (A # B \/ A[2] = 0) THEN Infinity
    ELSE LET s == IF A = B
                  THEN ((3 * A[1] * A[1] + ALPHA) * RefInverse((2 * A[2]) % PRIME)) % PRIME
                  ELSE ((B[2] - A[2]) * RefInverse((B[1] - A[1]) % PRIME)) % PRIME
             x == (s * s - A[1] - B[1]) % PRIME
             y == (s * (A[1] - x) - A[2]) % PRIME
         IN <<x, y>>

RECURSIVE RefMul(_, _)
RefMul(k, Q) == IF k = 0 THEN Infinity ELSE RefAdd(RefMul(k - 1, Q), Q)

RefEcOp(P, Q, m) == RefAdd(P, RefMul(m, Q))

RefOnCurve(A) ==
    (A[2] * A[2]) % PRIME = (A[1] * A[1] * A[1] + ALPHA * A[1] + BETA) % PRIME

\* No same-x coincidence: at no pass i does the doubled point 2^i * Q have the
\* x coordinate of the partial sum P + (m mod 2^i) * Q.
RefNoSameX(P, Q, m) ==
    \A i \in 0 .. (Height - 1) :
        LET D == RefMul(Pow2(i), Q)
            S == RefEcOp(P, Q, m % Pow2(i))
        IN D # Infinity /\ S # Infinity /\ D[1] # S[1]

RefCoordinate(a, A) == IF a % CELLS_PER_EC_OP = 5 THEN A[1] ELSE A[2]

\* C4 as stated: P on the curve, m < 2^scalar_height and no same-x error: the
\* value returned is the coordinate of P + m*Q, for every Q.
C4_Original ==
    (/\ ecpc = "done"
     /\ RefOnCurve(EcP)
     /\ EcM < Pow2(Height)
     /\ ecOut.kind = "Value")
        => ecOut.val = RefCoordinate(ecAddr, RefEcOp(EcP, EcQ, EcM))

\* The part of C4 the code does satisfy: when Q is a curve point as well (no
\* check in deduce_memory_cell establishes it), m < 2^scalar_height and no
\* same-x coincidence occurs, the call returns the x coordinate (index 5) or
\* the y coordinate (index 6) of the reference sum P + m*Q.
C4_EcOpIsReferenceSum ==
    (/\ ecpc = "done"
     /\ RefOnCurve(EcP)
     /\ RefOnCurve(EcQ)
     /\ EcM < Pow2(Height)
     /\ RefNoSameX(EcP, EcQ, EcM))
        => /\ ecOut.kind = "Value"
           /\ RefEcOp(EcP, EcQ, EcM) # Infinity
           /\ ecOut.val = RefCoordinate(ecAddr, RefEcOp(EcP, EcQ, EcM))

\* The y coordinate of P + 3*Q was returned: both loop passes added and doubled.
C4_Witness ==
    /\ ecpc = "done"
    /\ ecOut.kind = "Value"
    /\ ecAddr % CELLS_PER_EC_OP = 6
    /\ RefOnCurve(EcQ)
    /\ EcM = 3
    /\ RefNoSameX(EcP, EcQ, EcM)
    /\ ecOut.val = RefEcOp(EcP, EcQ, EcM)[2]

EcSameX == (ecState.dp[1] - ecState.ps[1]) % PRIME = 0

\* C5: a step of the call ends in EcOpSameXCoordinate exactly when it is a loop
\* pass (i < scalar_height) that starts with doubled_point.x = partial_sum.x
\* (mod p), whatever the low bit of m; the error carries the partial sum, the
\* unshifted m and the doubled point of that pass.
C5_SameXExactly ==
    [][ /\ (ecOut'.kind = "EcOpSameXCoordinate" /\ ecOut.kind # "EcOpSameXCoordinate")
              <=> (ecpc = "loop" /\ ecIter < Height /\ EcSameX)
        /\ (ecpc = "loop" /\ ecIter < Height /\ EcSameX)
              => /\ ecpc' = "done"
                 /\ ecOut' = EcOut("EcOpSameXCoordinate", 0, ecState.ps, EcM, ecState.dp) ]_vars

\* The call failed in its second pass with m = 0: no point was ever added.
C5_Witness ==
    /\ ecpc = "done"
    /\ ecOut.kind = "EcOpSameXCoordinate"
    /\ ecOut.m = 0
    /\ ecIter = 1
    /\ ecOut.ps = EcP
    /\ ecOut.dp # EcQ

\* C6: the call fails with PointNotOnCurve exactly when P is not on the curve,
\* for every Q and m, and then no loop pass has been made.
C6_PointNotOnCurve ==
    ecpc = "done" =>
        /\ (~RefOnCurve(EcP)) <=> (ecOut.kind = "PointNotOnCurve")
        /\ ecOut.kind = "PointNotOnCurve" => (ecIter = 0 /\ ecState = EcIdleState)

\* P is off the curve while Q is on it.
C6_Witness ==
    /\ ecpc = "done"
    /\ ecOut.kind = "PointNotOnCurve"
    /\ RefOnCurve(EcQ)
    /\ ~RefOnCurve(EcP)

\* C7: in every loop pass that passes the same-x check, ec_add gets points of
\* different x and ec_double a point with y # 0 (mod p), and no assertion of
\* line_slope, ec_double_slope or div_mod fails.
C7_PreconditionsHold ==
    /\ (ecpc = "loop" /\ ecIter < Height /\ ~EcSameX)
          => /\ ecState.dp[2] % PRIME # 0
             /\ ecState.ps[1] % PRIME # ecState.dp[1] % PRIME
    /\ ecOut.kind # "panic"

\* The part of C7 the code does satisfy: when Q is a curve point as well, no
\* assertion of line_slope, ec_double_slope or div_mod fails.
C7_HoldsForCurvePoints ==
    RefOnCurve(EcQ) =>
        /\ (ecpc = "loop" /\ ecIter < Height /\ ~EcSameX)
              => /\ ecState.dp[2] % PRIME # 0
                 /\ ecState.ps[1] % PRIME # ecState.dp[1] % PRIME
        /\ ecOut.kind # "panic"

\* ------------------------------------------------------------------------
\* One call of eval_circuit, gate by gate
\* ------------------------------------------------------------------------
ValueSlots == 0 .. 3
ValueCells == 0 .. (Cardinality(ValueSlots) * LIMBS_COUNT - 1)
Moduli == {3, 4}
GateCounts == 0 .. 2
InstCells == 0 .. (2 * MOD_BUILTIN_INSTACE_SIZE - 1)

\* What the run finds in a slot of the values buffer: slots 0 and 1 are inputs
\* of the circuit, slots 2 and 3 are unknown or hold a constant.
SlotChoices(slot) ==
    IF slot \in {0, 1} THEN 0 .. MaxVal
    ELSE IF slot = 2 THEN {Unknown, 1}
    ELSE {Unknown, 2}

\* The gates a circuit is made of, as slots <<lhs, rhs, res>>.
AddPalette == {<<0, 1, 2>>, <<3, 0, 2>>, <<0, 0, 3>>, <<2, 1, 3>>, <<0, 2, 3>>}
MulPalette == {<<0, 1, 2>>, <<3, 0, 2>>, <<2, 1, 3>>, <<0, 2, 3>>}

GateOffsets(g) == <<LIMBS_COUNT * g[1], LIMBS_COUNT * g[2], LIMBS_COUNT * g[3]>>

GateSeqs(palette) ==
    {<<>>} \cup {<<GateOffsets(g)>> : g \in palette}
           \cup {<<GateOffsets(g), GateOffsets(h)>> : g, h \in palette}

RECURSIVE StoreSlots(_, _, _)
StoreSlots(mem, f, slot) ==
    IF slot \notin ValueSlots THEN mem
    ELSE StoreSlots(IF f[slot] = Unknown THEN mem
                    ELSE write_circuit_value(mem, LIMBS_COUNT * slot, f[slot]).mem,
                    f, slot + 1)

InitCircuit ==
    /\ memory = [a \in SegOffsets |-> NoCell]
    /\ deduced = [a \in OutputOffsets |-> NoValue]
    /\ EcIdle
    /\ RefIdle
    /\ KernIdle
    /\ HintIdle
    /\ \E f \in [ValueSlots -> (0 .. MaxVal) \cup {Unknown}] :
           /\ \A slot \in ValueSlots : f[slot] \in SlotChoices(slot)
           /\ values = StoreSlots([a \in ValueCells |-> NoCell], f, 0)
    /\ add_gates \in GateSeqs(AddPalette)
    /\ mul_gates \in GateSeqs(MulPalette)
    /\ Len(add_gates) \in GateCounts
    /\ Len(mul_gates) \in GateCounts
    /\ \E modulus \in Moduli :
           mulInst = [write_circuit_value([a \in InstCells |-> NoCell], 0, modulus).mem
                         EXCEPT ![4] = PtrCell(0), ![5] = PtrCell(0)]
    /\ addInst = [[a \in InstCells |-> NoCell] EXCEPT ![5] = PtrCell(0)]
    /\ cpc = "idle"
    /\ gateIdx = GateIdxStart
    /\ cOut = CircNoOut

n_add_mods == Len(add_gates)
n_mul_mods == Len(mul_gates)

\* Circuit::read_add_mod_value / read_mul_mod_value of operand k of gate idx.
read_gate_value(mem, gates, idx, k) == read_circuit_value(mem, gates[idx + 1][k])

CircPanic == [kind |-> "panic", ret |-> <<>>]

\* eval_circuit up to the loop of compute_gates.
EvalBegin ==
    /\ cpc = "idle"
    /\ IF mulInst[4].tag # "rel" \/ mulInst[5].tag # "rel"
          \/ (n_add_mods # 0 /\ addInst[5].tag # "rel")
       THEN /\ cpc' = "done"
            /\ cOut' = [kind |-> "Err", ret |-> <<>>]
            /\ UNCHANGED gateIdx
       ELSE IF read_circuit_value(mulInst, 0) = Unknown
       THEN /\ cpc' = "done"
            /\ cOut' = CircPanic
            /\ UNCHANGED gateIdx
       ELSE /\ cpc' = "adds"
            /\ gateIdx' = [addmod_idx |-> 0, mulmod_idx |-> 0,
                           first_failure_idx |-> n_mul_mods,
                           modulus |-> read_circuit_value(mulInst, 0)]
            /\ UNCHANGED cOut
    /\ UNCHANGED <<memory, deduced, ecVars, refVars, kernVars, hintVars, values, add_gates, mul_gates, addInst, mulInst>>

\* Faulty variant: no sub gates, a gate with an unknown lhs ends the loop.
add_gate_pass_forward_only(mem, gates, idx, modulus) ==
    LET lhs == read_gate_value(mem, gates, idx, 1)
        rhs == read_gate_value(mem, gates, idx, 2)
    IN IF lhs # Unknown /\ rhs # Unknown
       THEN LET w == write_circuit_value(mem, gates[idx + 1][3], (lhs + rhs) % modulus)
            IN [kind |-> IF w.ok THEN "next" ELSE "panic", mem |-> w.mem]
       ELSE [kind |-> "break", mem |-> mem]

\* Faulty variant: a sub gate gets lhs = res + rhs.
add_gate_pass_sub_adds(mem, gates, idx, modulus) ==
    LET lhs == read_gate_value(mem, gates, idx, 1)
        rhs == read_gate_value(mem, gates, idx, 2)
        res == read_gate_value(mem, gates, idx, 3)
    IN IF lhs # Unknown /\ rhs # Unknown
       THEN LET w == write_circuit_value(mem, gates[idx + 1][3], (lhs + rhs) % modulus)
            IN [kind |-> IF w.ok THEN "next" ELSE "panic", mem |-> w.mem]
       ELSE IF lhs = Unknown /\ rhs # Unknown
       THEN IF res = Unknown THEN [kind |-> "break", mem |-> mem]
            ELSE LET w == write_circuit_value(mem, gates[idx + 1][1],
                                              (res + rhs) % modulus)
                 IN [kind |-> IF w.ok THEN "next" ELSE "panic", mem |-> w.mem]
       ELSE [kind |-> "break", mem |-> mem]

\* What one pass of the while loop over the add gates does.
add_gate_pass(mem, gates, idx, modulus) ==
    LET lhs == read_gate_value(mem, gates, idx, 1)
        rhs == read_gate_value(mem, gates, idx, 2)
        res == read_gate_value(mem, gates, idx, 3)
    IN IF lhs # Unknown /\ rhs # Unknown
       THEN LET w == write_circuit_value(mem, gates[idx + 1][3], (lhs + rhs) % modulus)
            IN [kind |-> IF w.ok THEN "next" ELSE "panic", mem |-> w.mem]
       ELSE IF lhs = Unknown /\ rhs # Unknown
       THEN IF res = Unknown THEN [kind |-> "break", mem |-> mem]
            ELSE IF res + modulus - rhs < 0 THEN [kind |-> "panic", mem |-> mem]
            ELSE LET w == write_circuit_value(mem, gates[idx + 1][1],
                                              (res + modulus - rhs) % modulus)
                 IN [kind |-> IF w.ok THEN "next" ELSE "panic", mem |-> w.mem]
       ELSE [kind |-> "break", mem |-> mem]

AddGateStep ==
    /\ cpc = "adds"
    /\ IF gateIdx.addmod_idx < n_add_mods
       THEN LET r == add_gate_pass(values, add_gates, gateIdx.addmod_idx, gateIdx.modulus)
            IN /\ values' = r.mem
               /\ IF r.kind = "next"
                  THEN /\ gateIdx' = [gateIdx EXCEPT !.addmod_idx = @ + 1]
                       /\ UNCHANGED <<cpc, cOut>>
                  ELSE IF r.kind = "break"
                  THEN /\ cpc' = "mul"
                       /\ UNCHANGED <<gateIdx, cOut>>
                  ELSE /\ cpc' = "done"
                       /\ cOut' = CircPanic
                       /\ UNCHANGED gateIdx
       ELSE /\ cpc' = "mul"
            /\ UNCHANGED <<values, gateIdx, cOut>>
    /\ UNCHANGED <<memory, deduced, ecVars, refVars, kernVars, hintVars, add_gates, mul_gates, addInst, mulInst>>

\* What the loop does with the mul gate at mulmod_idx.
mul_gate_pass(mem, gates, idx, modulus) ==
    LET lhs == read_gate_value(mem, gates, idx, 1)
        rhs == read_gate_value(mem, gates, idx, 2)
    IN IF lhs # Unknown /\ rhs # Unknown
       THEN LET w == write_circuit_value(mem, gates[idx + 1][3], (lhs * rhs) % modulus)
            IN [kind |-> IF w.ok THEN "next" ELSE "panic", mem |-> w.mem]
       ELSE IF lhs = Unknown /\ rhs # Unknown
       THEN LET inv == find_inverse(rhs, modulus)
                w == write_circuit_value(mem, gates[idx + 1][1], inv.res)
            IN [kind |-> IF ~w.ok THEN "panic" ELSE IF inv.success THEN "next" ELSE "failure",
                mem |-> w.mem]
       ELSE [kind |-> "panic", mem |-> mem]

MulGateStep ==
    /\ cpc = "mul"
    /\ IF gateIdx.mulmod_idx = n_mul_mods
       THEN /\ cpc' = "fill"
            /\ UNCHANGED <<values, gateIdx, cOut>>
       ELSE LET r == mul_gate_pass(values, mul_gates, gateIdx.mulmod_idx, gateIdx.modulus)
            IN /\ values' = r.mem
               /\ IF r.kind = "next"
                  THEN /\ gateIdx' = [gateIdx EXCEPT !.mulmod_idx = @ + 1]
                       /\ cpc' = "adds"
                       /\ UNCHANGED cOut
                  ELSE IF r.kind = "failure"
                  THEN /\ gateIdx' = [gateIdx EXCEPT !.first_failure_idx = gateIdx.mulmod_idx]
                       /\ cpc' = "fill"
                       /\ UNCHANGED cOut
                  ELSE /\ cpc' = "done"
                       /\ cOut' = CircPanic
                       /\ UNCHANGED gateIdx
    /\ UNCHANGED <<memory, deduced, ecVars, refVars, kernVars, hintVars, add_gates, mul_gates, addInst, mulInst>>

\* The seven cells fill_instances writes for instance i, in the order written.
instance_cells(i, n_instances, modulus, offsets_ptr) ==
    <<modulus[1], modulus[2], modulus[3], modulus[4], PtrCell(0),
      PtrCell(offsets_ptr + OFFSETS_PER_GATE * i), IntCell(n_instances - i)>>

RECURSIVE fill_instances(_, _, _, _, _, _)
fill_instances(mem, i, k, n_instances, modulus, offsets_ptr) ==
    IF i = n_instances THEN [ok |-> TRUE, mem |-> mem]
    ELSE IF k = MOD_BUILTIN_INSTACE_SIZE
    THEN fill_instances(mem, i + 1, 0, n_instances, modulus, offsets_ptr)
    ELSE LET w == InsertValue(mem, i * MOD_BUILTIN_INSTACE_SIZE + k,
                              instance_cells(i, n_instances, modulus, offsets_ptr)[k + 1])
         IN IF w.ok THEN fill_instances(w.mem, i, k + 1, n_instances, modulus, offsets_ptr)
            ELSE w

\* The rest of eval_circuit: the instances of both builtins, then Ok(()).
EvalEnd ==
    LET n_computed_gates == gateIdx.first_failure_idx
        modulus == <<mulInst[0], mulInst[1], mulInst[2], mulInst[3]>>
        fa == fill_instances(addInst, 0, 0, n_add_mods, modulus, addInst[5].v)
        fm == fill_instances(mulInst, 0, 0, n_computed_gates, modulus, mulInst[5].v)
    IN /\ cpc = "fill"
       /\ cpc' = "done"
       /\ addInst' = fa.mem
       /\ mulInst' = IF fa.ok THEN fm.mem ELSE mulInst
       /\ cOut' = IF fa.ok /\ fm.ok THEN [kind |-> "Ok", ret |-> <<>>]
                  ELSE [kind |-> "Err", ret |-> <<>>]
       /\ UNCHANGED <<memory, deduced, ecVars, refVars, kernVars, hintVars, values, add_gates, mul_gates, gateIdx>>

NextCircuit ==
    \/ EvalBegin
    \/ AddGateStep
    \/ MulGateStep
    \/ EvalEnd

SpecCircuit == InitCircuit /\ [][NextCircuit]_vars

\* compute_gates has returned and eval_circuit goes on to fill the instances.
GatesReturned == cpc = "fill"
InversionFailed == GatesReturned /\ gateIdx.first_failure_idx < n_mul_mods

AddIndices == 0 .. (n_add_mods - 1)
MulIndices == 0 .. (n_mul_mods - 1)

\* The values buffer without the value stored at off.
ValuesWithout(off) ==
    [a \in DOMAIN values |->
        IF a \in off .. (off + LIMBS_COUNT - 1) THEN NoCell ELSE values[a]]

\* The values buffer as it was before the failed mul gate got its nullifier.
ValuesBeforeFailure == ValuesWithout(mul_gates[gateIdx.first_failure_idx + 1][1])

AddOperand(mem, j, k) == read_gate_value(mem, add_gates, j, k)
MulOperand(mem, j, k) == read_gate_value(mem, mul_gates, j, k)

\* lhs and rhs known, or rhs and res known
AddGateReady(mem, j) ==
    /\ AddOperand(mem, j, 2) # Unknown
    /\ (AddOperand(mem, j, 1) # Unknown \/ AddOperand(mem, j, 3) # Unknown)

AddGateHolds(mem, j, modulus) ==
    /\ \A k \in 1 .. 3 : AddOperand(mem, j, k) # Unknown
    /\ (AddOperand(mem, j, 1) + AddOperand(mem, j, 2)) % modulus
           = AddOperand(mem, j, 3) % modulus

\* C8 as stated: after an inversion failure, every add gate whose operands are
\* known without the failed gate's value has been evaluated, wherever it sits.
C8_Original ==
    InversionFailed =>
        \A j \in AddIndices :
            AddGateReady(ValuesBeforeFailure, j) => j < gateIdx.addmod_idx

\* C8, amended: after an inversion failure the add gates evaluated are the
\* gates before the first add gate that was not ready: they all hold, and the
\* gate the loop stopped at has neither lhs,rhs nor rhs,res known without the
\* failed gate's value.  Gates behind it are not looked at.
C8_ReadyPrefixEvaluated ==
    InversionFailed =>
        /\ \A j \in AddIndices :
               j < gateIdx.addmod_idx => AddGateHolds(values, j, gateIdx.modulus)
        /\ gateIdx.addmod_idx < n_add_mods
               => ~AddGateReady(ValuesBeforeFailure, gateIdx.addmod_idx)

\* A mul gate failed with one add gate evaluated and the next one waiting for
\* the value the failed gate was to give.
C8_Witness ==
    /\ InversionFailed
    /\ gateIdx.addmod_idx = 1
    /\ n_add_mods = 2
    /\ AddOperand(ValuesBeforeFailure, 1, 2) = Unknown
    /\ AddOperand(values, 1, 2) # Unknown

RECURSIVE RefGcd(_, _)
RefGcd(a, b) == IF b = 0 THEN a ELSE RefGcd(b, a % b)

\* C9 as stated: the index returned is the smallest mul gate whose rhs is not
\* coprime to the modulus; the gates below it satisfy lhs*rhs = res, the gate
\* itself holds the nullifier, and no gate above it was processed.
C9_Original ==
    GatesReturned =>
        LET k == gateIdx.first_failure_idx
            modulus == gateIdx.modulus
        IN /\ \A j \in MulIndices :
                  j < k => /\ \A o \in 1 .. 3 : MulOperand(values, j, o) # Unknown
                           /\ RefGcd(MulOperand(values, j, 2), modulus) = 1
                           /\ (MulOperand(values, j, 1) * MulOperand(values, j, 2)) % modulus
                                  = MulOperand(values, j, 3) % modulus
           /\ k < n_mul_mods =>
                  /\ RefGcd(MulOperand(values, k, 2), modulus) # 1
                  /\ MulOperand(values, k, 1)
                         = modulus \div RefGcd(MulOperand(values, k, 2), modulus)
                  /\ 0 < MulOperand(values, k, 1)
                  /\ MulOperand(values, k, 1) < modulus
                  /\ (MulOperand(values, k, 1) * MulOperand(values, k, 2)) % modulus = 0
                  /\ gateIdx.mulmod_idx = k

MulPassTaken ==
    /\ cpc = "mul"
    /\ gateIdx.mulmod_idx < n_mul_mods
    /\ cpc' # "mul"
    /\ cOut'.kind # "panic"

\* C9, amended: only a mul gate processed as an inverse gate (lhs unknown, rhs
\* known) can fail, and it fails exactly when gcd(rhs, modulus) # 1: it then
\* gets lhs = modulus / gcd with 0 < lhs < modulus and lhs*rhs = 0 (mod
\* modulus), its index is the index returned and no later mul gate is
\* processed.  A gate with lhs and rhs known gets res = lhs*rhs (mod modulus)
\* whatever its rhs; an inverse gate that succeeds gets lhs*rhs = 1 (mod
\* modulus), its res is not looked at.  Without a failure the index returned
\* is n_mul_mods.
C9_FirstFailure ==
    [][ /\ MulPassTaken =>
              LET k == gateIdx.mulmod_idx
                  modulus == gateIdx.modulus
                  lhs == MulOperand(values, k, 1)
                  rhs == MulOperand(values, k, 2)
                  failed == lhs = Unknown /\ RefGcd(rhs, modulus) # 1
              IN /\ rhs # Unknown
                 /\ MulOperand(values', k, 2) = rhs
                 /\ failed <=> (cpc' = "fill")
                 /\ failed =>
                        /\ gateIdx'.first_failure_idx = k
                        /\ gateIdx'.mulmod_idx = k
                        /\ MulOperand(values', k, 1) = modulus \div RefGcd(rhs, modulus)
                        /\ 0 < MulOperand(values', k, 1)
                        /\ MulOperand(values', k, 1) < modulus
                        /\ (MulOperand(values', k, 1) * rhs) % modulus = 0
                 /\ ~failed =>
                        /\ gateIdx'.mulmod_idx = k + 1
                        /\ gateIdx'.first_failure_idx = n_mul_mods
                        /\ lhs # Unknown =>
                               /\ MulOperand(values', k, 1) = lhs
                               /\ MulOperand(values', k, 3) = (lhs * rhs) % modulus
                        /\ lhs = Unknown =>
                               /\ MulOperand(values', k, 1) < modulus
                               /\ (MulOperand(values', k, 1) * rhs) % modulus = 1
        /\ GatesReturned' =>
              /\ gateIdx'.first_failure_idx <= n_mul_mods
              /\ gateIdx'.first_failure_idx = n_mul_mods
                     => gateIdx'.mulmod_idx = n_mul_mods ]_vars

\* The second of two mul gates failed to invert after the first one, a gate
\* with a rhs that is not coprime to the modulus, was multiplied out.
C9_Witness ==
    /\ GatesReturned
    /\ n_mul_mods = 2
    /\ gateIdx.first_failure_idx = 1
    /\ RefGcd(MulOperand(values, 0, 2), gateIdx.modulus) # 1
    /\ MulOperand(values, 1, 1) = gateIdx.modulus \div 2

\* C10: eval_circuit hands the first mul gate index that failed to invert, or
\* n_mul_mods, back to its caller.
C10_ReturnsFirstFailure ==
    (cpc = "done" /\ cOut.kind = "Ok") => cOut.ret = <<gateIdx.first_failure_idx>>

\* Add gates f (forward) and s (subtract) form the two-gate circuit: no mul
\* gates, the subtract gate's res is the forward gate's res, its lhs is a slot
\* of its own, and the forward gate's lhs and rhs and the subtract gate's rhs
\* are given.
TwoGateAddCircuit(f, s) ==
    /\ n_mul_mods = 0
    /\ n_add_mods = 2
    /\ add_gates[s + 1][3] = add_gates[f + 1][3]
    /\ add_gates[s + 1][1] \notin {add_gates[f + 1][1], add_gates[f + 1][2],
                                   add_gates[f + 1][3], add_gates[s + 1][2]}
    /\ add_gates[f + 1][3] \notin {add_gates[f + 1][1], add_gates[f + 1][2],
                                   add_gates[s + 1][2]}
    /\ AddOperand(values, f, 1) # Unknown
    /\ AddOperand(values, f, 2) # Unknown
    /\ AddOperand(values, s, 2) # Unknown

\* C11 as stated: the two-gate add circuit is fully resolved when
\* compute_gates returns, whichever of the two gates is listed first.
C11_Original ==
    \A f, s \in {0, 1} :
        (GatesReturned /\ f # s /\ TwoGateAddCircuit(f, s))
            => /\ AddGateHolds(values, f, gateIdx.modulus)
               /\ AddGateHolds(values, s, gateIdx.modulus)

\* C11, with the forward gate listed first: when compute_gates returns, all
\* six operands are known and both gates satisfy lhs + rhs = res (mod modulus).
C11_ForwardFirstResolves ==
    (GatesReturned /\ TwoGateAddCircuit(0, 1))
        => /\ gateIdx.addmod_idx = 2
           /\ AddGateHolds(values, 0, gateIdx.modulus)
           /\ AddGateHolds(values, 1, gateIdx.modulus)

\* C11, with the subtract gate listed first and its res not given: the scan
\* stops at it and no gate is evaluated, the forward gate included.
C11_SubtractFirstStalls ==
    (GatesReturned /\ TwoGateAddCircuit(1, 0) /\ AddOperand(values, 0, 3) = Unknown)
        => /\ gateIdx.addmod_idx = 0
           /\ AddOperand(values, 0, 1) = Unknown
           /\ AddOperand(values, 1, 3) = Unknown

\* The forward gate wrote a res and the subtract gate an lhs that no initial
\* buffer holds (slot 2 starts unknown or 1, slot 3 unknown or 2).
C11_Witness ==
    /\ GatesReturned
    /\ TwoGateAddCircuit(0, 1)
    /\ add_gates = <<GateOffsets(<<0, 1, 2>>), GateOffsets(<<3, 0, 2>>)>>
    /\ AddOperand(values, 0, 3) = 2
    /\ AddOperand(values, 1, 1) = 1

\* ------------------------------------------------------------------------
\* A whole call of compute_gates / eval_circuit on a given memory
\* ------------------------------------------------------------------------
\* while addmod_idx < n_add_mods { .. }: the gates from idx on, up to the
\* first one that is not ready.
RECURSIVE drain_add_gates(_, _, _)
drain_add_gates(mem, idx, modulus) ==
    IF idx >= n_add_mods THEN [kind |-> "ok", mem |-> mem, idx |-> idx]
    ELSE LET r == add_gate_pass(mem, add_gates, idx, modulus)
         IN IF r.kind = "next" THEN drain_add_gates(r.mem, idx + 1, modulus)
            ELSE IF r.kind = "break" THEN [kind |-> "ok", mem |-> mem, idx |-> idx]
            ELSE [kind |-> "panic", mem |-> r.mem, idx |-> idx]

\* The loop of compute_gates from addmod_idx, mulmod_idx on: the memory it
\* leaves and the index it returns.
RECURSIVE compute_gates_from(_, _, _, _)
compute_gates_from(mem, addmod_idx, mulmod_idx, modulus) ==
    LET d == drain_add_gates(mem, addmod_idx, modulus)
    IN IF d.kind = "panic" THEN [kind |-> "panic", mem |-> d.mem, ret |-> n_mul_mods]
       ELSE IF mulmod_idx = n_mul_mods
       THEN [kind |-> "ok", mem |-> d.mem, ret |-> n_mul_mods]
       ELSE LET r == mul_gate_pass(d.mem, mul_gates, mulmod_idx, modulus)
            IN IF r.kind = "next"
               THEN compute_gates_from(r.mem, d.idx, mulmod_idx + 1, modulus)
               ELSE IF r.kind = "failure"
               THEN [kind |-> "ok", mem |-> r.mem, ret |-> mulmod_idx]
               ELSE [kind |-> "panic", mem |-> r.mem, ret |-> n_mul_mods]

compute_gates(mem) ==
    IF read_circuit_value(mulInst, 0) = Unknown
    THEN [kind |-> "panic", mem |-> mem, ret |-> n_mul_mods]
    ELSE compute_gates_from(mem, 0, 0, read_circuit_value(mulInst, 0))

\* eval_circuit on the values buffer and the instances as they are now.
eval_circuit ==
    LET g == compute_gates(values)
        modulus == <<mulInst[0], mulInst[1], mulInst[2], mulInst[3]>>
        fa == fill_instances(addInst, 0, 0, n_add_mods, modulus, addInst[5].v)
        fm == fill_instances(mulInst, 0, 0, g.ret, modulus, mulInst[5].v)
    IN IF mulInst[4].tag # "rel" \/ mulInst[5].tag # "rel"
          \/ (n_add_mods # 0 /\ addInst[5].tag # "rel")
       THEN [kind |-> "Err", values |-> values, addInst |-> addInst,
             mulInst |-> mulInst, n_computed_gates |-> n_mul_mods]
       ELSE IF g.kind = "panic"
       THEN [kind |-> "panic", values |-> g.mem, addInst |-> addInst,
             mulInst |-> mulInst, n_computed_gates |-> n_mul_mods]
       ELSE [kind |-> IF fa.ok /\ fm.ok THEN "Ok" ELSE "Err",
             values |-> g.mem, addInst |-> fa.mem,
             mulInst |-> IF fa.ok THEN fm.mem ELSE mulInst,
             n_computed_gates |-> g.ret]

\* The stepwise run and the whole call agree: every step of the loop leaves
\* the outcome of the rest of the call as it was, and the call returns it.
ComputeGatesAgrees ==
    [][ (cpc \in {"adds", "mul"} /\ cpc' # cpc)
            => LET now == compute_gates_from(values, gateIdx.addmod_idx,
                                             gateIdx.mulmod_idx, gateIdx.modulus)
               IN IF cpc' = "fill"
                  THEN now = [kind |-> "ok", mem |-> values',
                              ret |-> gateIdx'.first_failure_idx]
                  ELSE IF cpc' = "done"
                  THEN now.kind = "panic" /\ now.mem = values'
                  ELSE now = compute_gates_from(values', gateIdx'.addmod_idx,
                                                gateIdx'.mulmod_idx, gateIdx'.modulus) ]_vars

\* C12: a second call of eval_circuit on the memory a first call has left
\* completes without a refused write, leaves the values buffer and the
\* instances as they are and computes the same first-failure index.
C12_SecondCallIdempotent ==
    (cpc = "done" /\ cOut.kind = "Ok")
        => /\ eval_circuit.kind = "Ok"
           /\ eval_circuit.values = values
           /\ eval_circuit.addInst = addInst
           /\ eval_circuit.mulInst = mulInst
           /\ eval_circuit.n_computed_gates = gateIdx.first_failure_idx

\* Instance slot i of a component with `total` instances is filled: the
\* modulus limbs, the values pointer, the pointer to its own offset triple
\* and the countdown total - i.
SlotFilled(inst, i, total) ==
    LET base == i * MOD_BUILTIN_INSTACE_SIZE
    IN /\ \A l \in 0 .. (LIMBS_COUNT - 1) : inst[base + l] = mulInst[l]
       /\ read_circuit_value(inst, base) = gateIdx.modulus
       /\ inst[base + 4] = PtrCell(0)
       /\ inst[base + 5] = PtrCell(OFFSETS_PER_GATE * i)
       /\ inst[base + 6] = IntCell(total - i)

\* C13: after eval_circuit every slot of the add-mod instances (n_add_mods of
\* them) and of the mul-mod instances (n_mul_mods of them, the gates behind an
\* inversion failure included) is filled, with the countdown total - i.
C13_EverySlotFilled ==
    (cpc = "done" /\ cOut.kind = "Ok")
        => /\ \A i \in AddIndices : SlotFilled(addInst, i, n_add_mods)
           /\ \A i \in MulIndices : SlotFilled(mulInst, i, n_mul_mods)

\* The part of C13 the code does satisfy: the add-mod slots are all filled,
\* the mul-mod slots are filled for the gates before the first failure only,
\* counting down from the first-failure index; the other mul-mod slots keep
\* what they held.
C13_ComputedSlotsFilled ==
    (cpc = "done" /\ cOut.kind = "Ok")
        => /\ \A i \in AddIndices : SlotFilled(addInst, i, n_add_mods)
           /\ \A i \in MulIndices :
                  IF i < gateIdx.first_failure_idx
                  THEN SlotFilled(mulInst, i, gateIdx.first_failure_idx)
                  ELSE mulInst[i * MOD_BUILTIN_INSTACE_SIZE + 6] = NoCell

\* What is left of the loop of compute_gates: gates not yet passed, and the
\* add-gate scan of the current round.
LoopMeasure(pc, idx) ==
    2 * (n_add_mods - idx.addmod_idx) + 2 * (n_mul_mods - idx.mulmod_idx)
        + (IF pc = "adds" THEN 1 ELSE 0)

\* C14: compute_gates passes each add gate and each mul gate at most once and
\* ends only with all mul gates processed or with an inversion failure: no
\* call ends another way, e.g. at a mul gate whose rhs is unknown.
C14_EndsOnlyByCompletionOrFailure ==
    /\ gateIdx.addmod_idx <= n_add_mods
    /\ gateIdx.mulmod_idx <= n_mul_mods
    /\ cpc = "done" => cOut.kind # "panic"
    /\ GatesReturned =>
           \/ gateIdx.mulmod_idx = n_mul_mods
           \/ gateIdx.first_failure_idx = gateIdx.mulmod_idx

\* The part of C14 the code does satisfy: every step of the loop passes a
\* gate or ends the add-gate scan, so the loop ends after at most
\* n_add_mods + n_mul_mods gates; a call that returns has processed all mul
\* gates or has stopped at an inversion failure.
C14_LoopProgress ==
    [][ /\ (cpc \in {"adds", "mul"} /\ cpc' \in {"adds", "mul"})
            => /\ LoopMeasure(cpc', gateIdx') < LoopMeasure(cpc, gateIdx)
               /\ LoopMeasure(cpc', gateIdx') >= 0
               /\ gateIdx'.addmod_idx \in {gateIdx.addmod_idx, gateIdx.addmod_idx + 1}
        /\ GatesReturned' =>
               \/ gateIdx'.mulmod_idx = n_mul_mods
               \/ gateIdx'.first_failure_idx = gateIdx'.mulmod_idx ]_vars

\* ------------------------------------------------------------------------
\* One call of a resolving function of hint_processor_utils.rs
\* ------------------------------------------------------------------------
Registers == {"FP", "AP"}
I32Offsets == {I32_MIN, -2, -1, 0, 1}
RegisterOffsets == {[fp |-> 0, ap |-> 1], [fp |-> 2, ap |-> 1],
                    [fp |-> 0, ap |-> 3], [fp |-> 2, ap |-> 3]}

FirstOffsets ==
    {Reference(r, o, d) : r \in Registers, o \in I32Offsets, d \in BOOLEAN}
        \cup {Immediate(2), Value(0)}
SecondOffsets ==
    {Value(0), Value(1), Immediate(2),
     Reference("FP", 0, TRUE), Reference("FP", -1, TRUE),
     Reference("AP", 0, TRUE), Reference("AP", -1, FALSE), Reference("AP", I32_MIN, TRUE)}
ReferenceTrackings == {NoApTracking, ApTracking(0, 0), ApTracking(0, 1), ApTracking(1, 0)}
HintTrackings == {ApTracking(0, 0), ApTracking(0, 2), ApTracking(1, 1)}

\* The first cells of the execution segment, the rest is unwritten.
SegmentWith(cells) ==
    [a \in SegOffsets |-> IF a < Len(cells) THEN cells[a + 1] ELSE NoCell]
Segments ==
    {SegmentWith(<<>>),
     SegmentWith(<<IntCell(1), Addr(2), IntCell(0), Addr(0)>>),
     SegmentWith(<<Addr(1), IntCell(2), Addr(3), IntCell(1), NoCell, IntCell(3)>>)}

InsertedValues == {IntCell(1), Addr(2)}

InitResolve ==
    /\ memory \in Segments
    /\ deduced = [a \in OutputOffsets |-> NoValue]
    /\ EcIdle
    /\ CircIdle
    /\ KernIdle
    /\ HintIdle
    /\ run_context \in RegisterOffsets
    /\ hint_reference \in [offset1 : FirstOffsets, offset2 : SecondOffsets,
                           dereference : BOOLEAN, ap_tracking_data : ReferenceTrackings]
    /\ hint_ap_tracking \in HintTrackings
    /\ rpc = "idle"
    /\ rOut = ResolveNoOut

ComputeAddrFromReference ==
    /\ rpc = "idle"
    /\ rpc' = "compute_addr_from_reference"
    /\ \E build \in Builds :
           rOut' = compute_addr_from_reference(memory, run_context, hint_reference,
                                               hint_ap_tracking, build)
    /\ UNCHANGED <<memory, deduced, ecVars, circVars, kernVars, hintVars,
                   run_context, hint_reference, hint_ap_tracking>>

GetIntegerFromReference ==
    /\ rpc = "idle"
    /\ rpc' = "get_integer_from_reference"
    /\ \E build \in Builds :
           rOut' = get_integer_from_reference(memory, run_context, hint_reference,
                                              hint_ap_tracking, build)
    /\ UNCHANGED <<memory, deduced, ecVars, circVars, kernVars, hintVars,
                   run_context, hint_reference, hint_ap_tracking>>

GetPtrFromReference ==
    /\ rpc = "idle"
    /\ rpc' = "get_ptr_from_reference"
    /\ \E build \in Builds :
           rOut' = get_ptr_from_reference(memory, run_context, hint_reference,
                                          hint_ap_tracking, build)
    /\ UNCHANGED <<memory, deduced, ecVars, circVars, kernVars, hintVars,
                   run_context, hint_reference, hint_ap_tracking>>

InsertValueFromReference(value) ==
    /\ rpc = "idle"
    /\ rpc' = "insert_value_from_reference"
    /\ \E build \in Builds :
           LET r == insert_value_from_reference(value, memory, run_context,
                        hint_reference, hint_ap_tracking, build)
           IN /\ rOut' = r.out
              /\ memory' = r.mem
    /\ UNCHANGED <<deduced, ecVars, circVars, kernVars, hintVars,
                   run_context, hint_reference, hint_ap_tracking>>

NextResolve ==
    \/ ComputeAddrFromReference
    \/ GetIntegerFromReference
    \/ GetPtrFromReference
    \/ \E value \in InsertedValues : InsertValueFromReference(value)

SpecResolve == InitResolve /\ [][NextResolve]_vars

\* The call has gone through compute_addr_from_reference.
AddrComputed ==
    /\ rpc # "idle"
    /\ ~(rpc = "get_integer_from_reference" /\ hint_reference.offset1.kind = "Immediate")

IsApReference(offset_value) ==
    offset_value.kind = "Reference" /\ offset_value.register = "AP"

\* What the first offset resolves to (the builds differ in it only for an
\* underflow of the tracking offsets or an offset of i32::MIN, where neither
\* gives a value).
FirstOffsetValue ==
    get_offset_value_reference(memory, run_context, hint_reference, hint_ap_tracking,
                               hint_reference.offset1, "release")

\* The tracking correction is applied for the first offset, or for the second
\* one after the first one has given an address.
CorrectionAppliedFirst ==
    /\ AddrComputed
    /\ IsApReference(hint_reference.offset1)
    /\ hint_reference.ap_tracking_data.some
CorrectionAppliedSecond ==
    /\ AddrComputed
    /\ hint_reference.offset1.kind = "Reference"
    /\ hint_reference.offset1.register = "FP"
    /\ hint_reference.offset1.offset # I32_MIN
    /\ FirstOffsetValue.kind = "Ok"
    /\ FirstOffsetValue.val.tag = "rel"
    /\ IsApReference(hint_reference.offset2)
    /\ hint_reference.ap_tracking_data.some

GroupsDiffer == hint_reference.ap_tracking_data.group # hint_ap_tracking.group

\* C15 as stated: when the tracking correction is applied with differing
\* groups, the call fails with InvalidTrackingGroup(reference group, hint
\* group) and has read no memory cell.
C15_Original ==
    ((CorrectionAppliedFirst \/ CorrectionAppliedSecond) /\ GroupsDiffer)
        => /\ rOut.kind = "InvalidTrackingGroup"
           /\ rOut.info = <<hint_reference.ap_tracking_data.group, hint_ap_tracking.group>>
           /\ rOut.reads = {}

\* C15, amended: the call fails with InvalidTrackingGroup(reference group, hint
\* group); no memory cell was read when the correction is that of the first
\* offset, and only the cell a dereferenced frame-pointer first offset names
\* when it is that of the second offset.
C15_InvalidTrackingGroup ==
    ((CorrectionAppliedFirst \/ CorrectionAppliedSecond) /\ GroupsDiffer)
        => /\ rOut.kind = "InvalidTrackingGroup"
           /\ rOut.info = <<hint_reference.ap_tracking_data.group, hint_ap_tracking.group>>
           /\ rOut.reads = IF CorrectionAppliedSecond /\ hint_reference.offset1.deref
                           THEN {run_context.fp + hint_reference.offset1.offset}
                           ELSE {}

\* The groups differ in the correction of the second offset, after the first
\* offset was loaded from memory.
C15_Witness ==
    /\ CorrectionAppliedSecond
    /\ GroupsDiffer
    /\ hint_reference.offset1.deref
    /\ rOut.kind = "InvalidTrackingGroup"
    /\ rOut.reads # {}

\* C16: get_integer_from_reference of a reference whose first offset is an
\* immediate returns that immediate, with no memory cell and no register
\* read, whatever memory, registers, tracking data, second offset and
\* dereference flag are.
C16_ImmediateReturned ==
    (rpc = "get_integer_from_reference" /\ hint_reference.offset1.kind = "Immediate")
        => rOut = ResolveOk(IntCell(hint_reference.offset1.offset), {}, {})

\* The immediate came back against an empty memory, with a second offset that
\* is a reference and differing tracking groups.
C16_Witness ==
    /\ rpc = "get_integer_from_reference"
    /\ hint_reference.offset1 = Immediate(2)
    /\ hint_reference.offset2.kind = "Reference"
    /\ hint_reference.dereference
    /\ GroupsDiffer
    /\ memory = SegmentWith(<<>>)
    /\ rOut.kind = "Ok"
    /\ rOut.val = IntCell(2)

\* C17: compute_addr_from_reference fails with NoRegisterInReference whenever
\* the first offset is an immediate or a constant, and gives an address only
\* for a first offset that is register-relative.
C17_NoRegisterInReference ==
    rpc = "compute_addr_from_reference"
        => /\ hint_reference.offset1.kind # "Reference"
                 => rOut = ResolveErr("NoRegisterInReference", <<>>, {}, {})
           /\ rOut.kind = "Ok"
                 => (hint_reference.offset1.kind = "Reference" /\ rOut.val.tag = "rel")

\* A constant first offset was refused although memory holds a pointer at
\* the cell it would name.
C17_Witness ==
    /\ rpc = "compute_addr_from_reference"
    /\ hint_reference.offset1 = Value(0)
    /\ memory[run_context.fp].tag = "rel"
    /\ rOut.kind = "NoRegisterInReference"

\* The base register offset the claims give for a register-relative offset:
\* fp as it is, ap less the difference of the tracking offsets.
TrackingDiff == hint_ap_tracking.offset - hint_reference.ap_tracking_data.offset
ExpectedBase(offset_value) ==
    IF offset_value.register = "FP" THEN run_context.fp ELSE run_context.ap - TrackingDiff
BaseUnderflows == TrackingDiff < 0 \/ TrackingDiff > run_context.ap
BaseResolves(offset_value) ==
    \/ offset_value.register = "FP"
    \/ (hint_reference.ap_tracking_data.some /\ ~GroupsDiffer /\ ~BaseUnderflows)

\* compute_addr_from_reference was called with a first offset that is
\* register-relative and a constant second offset.
PlainReferenceResolved ==
    /\ rpc = "compute_addr_from_reference"
    /\ hint_reference.offset1.kind = "Reference"
    /\ hint_reference.offset2.kind = "Value"

\* C18: for an ap-relative offset with equal tracking groups the base is
\* ap - (hint tracking offset - reference tracking offset), and resolution
\* fails with FailedToGetIds when that underflows; an fp-relative offset uses
\* fp whatever the tracking data are.
C18_TrackingCorrection ==
    (/\ PlainReferenceResolved
     /\ ~hint_reference.offset1.deref
     /\ hint_reference.offset1.offset >= 0)
        => IF hint_reference.offset1.register = "AP"
           THEN (hint_reference.ap_tracking_data.some /\ ~GroupsDiffer)
                    => IF BaseUnderflows THEN rOut.kind = "FailedToGetIds"
                       ELSE rOut = ResolveOk(Addr(ExpectedBase(hint_reference.offset1)
                                                  + hint_reference.offset1.offset
                                                  + hint_reference.offset2.offset),
                                             {}, {"ap"})
           ELSE rOut = ResolveOk(Addr(run_context.fp + hint_reference.offset1.offset
                                      + hint_reference.offset2.offset), {}, {"fp"})

\* The part of C18 the code does satisfy: as C18, but a hint tracking offset
\* below the reference's ends in a panic of the subtraction or in
\* FailedToGetIds, as the build has it.
C18_CorrectionUnlessPanic ==
    (/\ PlainReferenceResolved
     /\ ~hint_reference.offset1.deref
     /\ hint_reference.offset1.offset >= 0)
        => IF hint_reference.offset1.register = "AP"
           THEN (hint_reference.ap_tracking_data.some /\ ~GroupsDiffer)
                    => IF TrackingDiff < 0 THEN rOut.kind \in {"FailedToGetIds", "panic"}
                       ELSE IF BaseUnderflows THEN rOut.kind = "FailedToGetIds"
                       ELSE rOut = ResolveOk(Addr(ExpectedBase(hint_reference.offset1)
                                                  + hint_reference.offset1.offset
                                                  + hint_reference.offset2.offset),
                                             {}, {"ap"})
           ELSE rOut = ResolveOk(Addr(run_context.fp + hint_reference.offset1.offset
                                      + hint_reference.offset2.offset), {}, {"fp"})

\* C19: a negative register-relative offset whose absolute value exceeds the
\* base's offset makes resolution fail with FailedToGetIds; otherwise the
\* cell resolved is base + offset.
C19_NegativeOffset ==
    (PlainReferenceResolved /\ BaseResolves(hint_reference.offset1))
        => LET offset == hint_reference.offset1.offset
               base == ExpectedBase(hint_reference.offset1)
           IN IF offset < 0 /\ -offset > base THEN rOut.kind = "FailedToGetIds"
              ELSE IF hint_reference.offset1.deref THEN rOut.reads = {base + offset}
              ELSE rOut.kind = "Ok"
                     /\ rOut.val = Addr(base + offset + hint_reference.offset2.offset)

\* The part of C19 the code does satisfy: as C19 for every offset above
\* i32::MIN; for i32::MIN the call panics in offset.abs() or fails with
\* FailedToGetIds, as the build has it.
C19_NegativeOffsetAboveMin ==
    (PlainReferenceResolved /\ BaseResolves(hint_reference.offset1))
        => LET offset == hint_reference.offset1.offset
               base == ExpectedBase(hint_reference.offset1)
           IN IF offset = I32_MIN THEN rOut.kind \in {"FailedToGetIds", "panic"}
              ELSE IF offset < 0 /\ -offset > base THEN rOut.kind = "FailedToGetIds"
              ELSE IF hint_reference.offset1.deref THEN rOut.reads = {base + offset}
              ELSE rOut.kind = "Ok"
                     /\ rOut.val = Addr(base + offset + hint_reference.offset2.offset)

\* C20: no call changes fp or ap; compute_addr_from_reference,
\* get_integer_from_reference and get_ptr_from_reference leave memory as it
\* is; insert_value_from_reference leaves memory as it is when it fails and
\* otherwise changes no cell but the one the reference resolves to.
C20_ResolutionFrame ==
    [][ /\ run_context' = run_context
        /\ rpc' # "insert_value_from_reference" => memory' = memory
        /\ rpc' = "insert_value_from_reference" =>
               IF rOut'.kind # "Ok" THEN memory' = memory
               ELSE \E build \in Builds :
                        LET var_addr == compute_addr_from_reference(memory, run_context,
                                            hint_reference, hint_ap_tracking, build)
                        IN /\ var_addr.kind = "Ok"
                           /\ \A a \in DOMAIN memory :
                                  a # var_addr.val.v => memory'[a] = memory[a]
                           /\ memory[var_addr.val.v].tag = "none"
                                  => memory'[var_addr.val.v] \in InsertedValues ]_vars

\* insert_value_from_reference has written a cell through a reference with a
\* dereferenced first offset.
C20_Witness ==
    /\ rpc = "insert_value_from_reference"
    /\ rOut.kind = "Ok"
    /\ memory \notin Segments
    /\ hint_reference.offset1.kind = "Reference"
    /\ hint_reference.offset1.deref

\* The address compute_addr_from_reference gives for the reference, in
\* either build
ComputedAddrs ==
    {compute_addr_from_reference(memory, run_context, hint_reference,
                                 hint_ap_tracking, build) : build \in Builds}

\* C27: get_ptr_from_reference returns the computed address when the
\* dereference flag is false and the pointer stored at it when the flag is
\* true, failing if that cell is unwritten or holds an integer; with an inner
\* dereference of the first offset and a constant second offset k the
\* address is (pointer stored at base + offset1) + k.
C27_PtrDereference ==
    (rpc = "get_ptr_from_reference") =>
        /\ \E a \in ComputedAddrs :
               IF a.kind # "Ok" THEN rOut = a
               ELSE IF ~hint_reference.dereference
               THEN rOut.kind = "Ok" /\ rOut.val = a.val
               ELSE IF MemoryGet(memory, a.val.v).tag = "rel"
               THEN rOut.kind = "Ok" /\ rOut.val = MemoryGet(memory, a.val.v)
               ELSE rOut.kind \notin {"Ok", "panic"}
        /\ (/\ hint_reference.offset1.kind = "Reference"
            /\ hint_reference.offset1.deref
            /\ hint_reference.offset2.kind = "Value"
            /\ ~hint_reference.dereference
            /\ rOut.kind = "Ok") =>
               LET cell == MemoryGet(memory, ExpectedBase(hint_reference.offset1)
                                                 + hint_reference.offset1.offset)
               IN /\ cell.tag = "rel"
                  /\ rOut.val = Addr(cell.v + hint_reference.offset2.offset)

\* Both dereferences were made: the pointer at fp, moved by 1, names the cell
\* whose pointer came back.
C27_Witness ==
    /\ rpc = "get_ptr_from_reference"
    /\ hint_reference.offset1 = Reference("FP", 0, TRUE)
    /\ hint_reference.offset2 = Value(1)
    /\ hint_reference.dereference
    /\ run_context.fp = 0
    /\ memory[0] = Addr(1)
    /\ rOut.kind = "Ok"
    /\ rOut.val = Addr(3)

\* ------------------------------------------------------------------------
\* One call of a function of the number-theory kernel, of the limb
\* encoding, or one pass over an add gate
\* ------------------------------------------------------------------------
MaxSqrtInput == 40
MaxInt == 8
BigInts == (-MaxInt) .. MaxInt
Usizes == 0 .. (UsizeModulus - 1)
GateValues == {Unknown, 0, 1, 2, 3, 5, Pow2(LIMB_BITS * LIMBS_COUNT) - 1}
GateModuli == {2, 3, 4}

KernelCall(fn, args) == [fn |-> fn, args |-> args]

\* The calls: div_mod has moduli above one, prime or not; the slopes get
\* coordinates reduced or not; ec_add and ec_double get points of the curve,
\* reduced or not; the limb cells of a circuit value are unwritten or hold a
\* limb or an address.
InitKernel ==
    LET Coords == (-2) .. (PRIME + 2)
        CurvePoints ==
            {pt \in ((-PRIME) .. (2 * PRIME - 1)) \X ((-PRIME) .. (2 * PRIME - 1)) :
                (pt[2] * pt[2]) % PRIME
                    = (pt[1] * pt[1] * pt[1] + ALPHA * pt[1] + BETA) % PRIME}
        LimbMemories ==
            {[c \in ValueCells |-> IF c < LIMBS_COUNT THEN f[c] ELSE NoCell] :
                f \in [0 .. (LIMBS_COUNT - 1) -> {NoCell, IntCell(0), IntCell(1), PtrCell(0)}]}
    IN /\ memory = [a \in SegOffsets |-> NoCell]
       /\ deduced = [a \in OutputOffsets |-> NoValue]
       /\ EcIdle
       /\ CircIdle
       /\ RefIdle
       /\ HintIdle
       /\ \/ \E n \in (-3) .. MaxSqrtInput : kIn = KernelCall("isqrt", <<n>>)
          \/ \E x \in Felts, y \in Felts : kIn = KernelCall("safe_div", <<x, y>>)
          \/ \E x \in Usizes, y \in 0 .. 15 : kIn = KernelCall("safe_div_usize", <<x, y>>)
          \/ \E x \in BigInts, y \in BigInts : kIn = KernelCall("safe_div_bigint", <<x, y>>)
          \/ \E a \in BigInts, b \in BigInts : kIn = KernelCall("igcdex", <<a, b>>)
          \/ \E n \in BigInts, m \in BigInts, p \in 2 .. PRIME :
                 kIn = KernelCall("div_mod", <<n, m, p>>)
          \/ \E a \in Coords \X Coords, b \in Coords \X Coords :
                 kIn = KernelCall("line_slope", <<a, b>>)
          \/ \E a \in Coords \X Coords : kIn = KernelCall("ec_double_slope", <<a>>)
          \/ \E a \in CurvePoints, b \in CurvePoints : kIn = KernelCall("ec_add", <<a, b>>)
          \/ \E a \in CurvePoints : kIn = KernelCall("ec_double", <<a>>)
          \/ \E mem \in LimbMemories, v \in 0 .. (Pow2(LIMB_BITS * LIMBS_COUNT) - 1) :
                 kIn = KernelCall("write_circuit_value", <<mem, v>>)
          \/ \E mem \in LimbMemories : kIn = KernelCall("read_circuit_value", <<mem>>)
          \/ \E lhs \in GateValues, rhs \in GateValues, res \in GateValues,
                m \in GateModuli :
                 kIn = KernelCall("add_gate_pass", <<lhs, rhs, res, m>>)
       /\ kpc = "idle"
       /\ kLoc = <<0, 0>>
       /\ kOut = [kind |-> "pending", val |-> 0]

\* The value a panicking function of math_utils.rs never returns
KernValue(v) == IF v = PanicValue THEN KernPanic ELSE KernOk(v)
KernPoint(pt) == IF pt = PanicPoint THEN KernPanic ELSE KernOk(pt)

Return(out) ==
    /\ kpc' = "done"
    /\ kOut' = out
    /\ UNCHANGED kLoc

\* The function is called: the call is all that changes.
Called(fn) ==
    /\ kpc = "idle"
    /\ kIn.fn = fn
    /\ UNCHANGED <<memory, deduced, ecVars, circVars, refVars, hintVars, kIn>>

IsqrtBegin ==
    /\ Called("isqrt")
    /\ LET n == kIn.args[1]
       IN IF n < 0 THEN Return(KernErr("SqrtNegative", <<n>>))
          ELSE /\ kpc' = "loop"
               /\ kLoc' = isqrt_begin(n)
               /\ UNCHANGED kOut

IsqrtLoop ==
    /\ kpc = "loop"
    /\ LET n == kIn.args[1]
           x == kLoc[1]
           y == kLoc[2]
       IN IF isqrt_loop_condition(x, y)
          THEN IF isqrt_next(y, n) = PanicValue THEN Return(KernPanic)
               ELSE /\ kLoc' = <<y, isqrt_next(y, n)>>
                    /\ UNCHANGED <<kpc, kOut>>
          ELSE Return(isqrt_end(x, n))
    /\ UNCHANGED <<memory, deduced, ecVars, circVars, refVars, hintVars, kIn>>

SafeDiv ==
    /\ Called("safe_div")
    /\ Return(safe_div(kIn.args[1], kIn.args[2]))

SafeDivUsize ==
    /\ Called("safe_div_usize")
    /\ Return(safe_div_usize(kIn.args[1], kIn.args[2]))

SafeDivBigint ==
    /\ Called("safe_div_bigint")
    /\ Return(safe_div_bigint(kIn.args[1], kIn.args[2]))

Igcdex ==
    /\ Called("igcdex")
    /\ Return(KernOk(igcdex(kIn.args[1], kIn.args[2])))

DivMod ==
    /\ Called("div_mod")
    /\ Return(KernValue(div_mod(kIn.args[1], kIn.args[2], kIn.args[3])))

LineSlope ==
    /\ Called("line_slope")
    /\ Return(KernValue(line_slope(kIn.args[1], kIn.args[2], PRIME)))

EcDoubleSlope ==
    /\ Called("ec_double_slope")
    /\ Return(KernValue(ec_double_slope(kIn.args[1], ALPHA, PRIME)))

EcAdd ==
    /\ Called("ec_add")
    /\ Return(KernPoint(ec_add(kIn.args[1], kIn.args[2], PRIME)))

EcDouble ==
    /\ Called("ec_double")
    /\ Return(KernPoint(ec_double(kIn.args[1], ALPHA, PRIME)))

WriteCircuitValue ==
    /\ Called("write_circuit_value")
    /\ LET w == write_circuit_value(kIn.args[1], 0, kIn.args[2])
       IN /\ kLoc' = w.mem
          /\ IF w.ok THEN kpc' = "written" /\ UNCHANGED kOut
             ELSE kpc' = "done" /\ kOut' = KernPanic

\* read_circuit_value on the memory found, or on the memory a write has left
ReadCircuitValue ==
    /\ kpc = "written" \/ (kpc = "idle" /\ kIn.fn = "read_circuit_value")
    /\ Return(KernOk(read_circuit_value(IF kpc = "written" THEN kLoc ELSE kIn.args[1], 0)))
    /\ UNCHANGED <<memory, deduced, ecVars, circVars, refVars, hintVars, kIn>>

GateMemory(lhs, rhs, res) ==
    StoreSlots([c \in ValueCells |-> NoCell],
               [s \in ValueSlots |-> IF s = 0 THEN lhs ELSE IF s = 1 THEN rhs
                                     ELSE IF s = 2 THEN res ELSE Unknown], 0)

TheGate == <<GateOffsets(<<0, 1, 2>>)>>

AddGatePass ==
    /\ Called("add_gate_pass")
    /\ LET r == add_gate_pass(GateMemory(kIn.args[1], kIn.args[2], kIn.args[3]),
                              TheGate, 0, kIn.args[4])
       IN /\ kpc' = "done"
          /\ kLoc' = r.mem
          /\ kOut' = [kind |-> r.kind, val |-> 0, info |-> <<>>]

NextKernel ==
    \/ IsqrtBegin
    \/ IsqrtLoop
    \/ SafeDiv
    \/ SafeDivUsize
    \/ SafeDivBigint
    \/ Igcdex
    \/ DivMod
    \/ LineSlope
    \/ EcDoubleSlope
    \/ EcAdd
    \/ EcDouble
    \/ WriteCircuitValue
    \/ ReadCircuitValue
    \/ AddGatePass

SpecKernel == InitKernel /\ [][NextKernel]_vars

\* C22: isqrt(n) for n >= 0 leaves its loop after finitely many passes (x
\* falls in every pass and stays non-negative), never divides by zero and
\* returns r with r^2 <= n < (r+1)^2, never FailedToGetSqrt; for n < 0 it
\* fails with SqrtNegative(n) without entering the loop.
C22_Isqrt ==
    [][kIn.fn = "isqrt" =>
          LET n == kIn.args[1]
          IN /\ (kpc = "loop" /\ kpc' = "loop") => (0 <= kLoc'[1] /\ kLoc'[1] < kLoc[1])
             /\ (n < 0) => (kpc = "idle" /\ kpc' = "done"
                            /\ kOut' = KernErr("SqrtNegative", <<n>>))
             /\ (n >= 0 /\ kpc' = "done") =>
                    /\ kOut'.kind = "Ok"
                    /\ kOut'.val * kOut'.val <= n
                    /\ n < (kOut'.val + 1) * (kOut'.val + 1)]_vars

\* The square root of 16 has been found, through the loop.
C22_Witness ==
    /\ kIn = KernelCall("isqrt", <<16>>)
    /\ kpc = "done"
    /\ kLoc[1] = 4
    /\ kOut = KernOk(4)

\* The three variants of safe_div: the error of an inexact division, the
\* values of the type, and the product as the type forms it (a field
\* product is reduced modulo the prime, a usize product wraps in a build
\* without overflow checks and is not formed at all in one with them).
SafeDivVariants == {"safe_div", "safe_div_usize", "safe_div_bigint"}
SafeDivFailOf(fn) ==
    IF fn = "safe_div" THEN "SafeDivFail"
    ELSE IF fn = "safe_div_usize" THEN "SafeDivFailUsize" ELSE "SafeDivFailBigInt"
SafeDivDomain(fn) ==
    IF fn = "safe_div" THEN Felts ELSE IF fn = "safe_div_usize" THEN Usizes ELSE BigInts
ProductOf(fn, a, b) ==
    IF fn = "safe_div" THEN (a * b) % PRIME
    ELSE IF fn = "safe_div_usize" THEN (a * b) % UsizeModulus ELSE a * b

\* What C23 says of a returned call of safe_div, all but the product law.
SafeDivContract ==
    LET x == kIn.args[1]
        y == kIn.args[2]
    IN /\ (y = 0) => kOut = KernErr("DividedByZero", <<>>)
       /\ (y # 0 /\ \A q \in SafeDivDomain(kIn.fn) : q * y # x) =>
              kOut = KernErr(SafeDivFailOf(kIn.fn), <<x, y>>)
       /\ (y # 0 /\ \E q \in SafeDivDomain(kIn.fn) : q * y = x) =>
              (kOut.kind = "Ok" /\ kOut.val * y = x)

\* C23 as stated: safe_div(a*b, b) = a for every a and every b # 0 of the
\* variant's type, next to the rest of the contract.
C23_Original ==
    (kpc = "done" /\ kIn.fn \in SafeDivVariants) =>
        /\ SafeDivContract
        /\ \A a \in SafeDivDomain(kIn.fn) :
               (kIn.args[2] # 0 /\ kIn.args[1] = ProductOf(kIn.fn, a, kIn.args[2])) =>
                   kOut = KernOk(a)

\* C23: y = 0 fails with DividedByZero for every x; y # 0 not dividing x
\* fails with the variant's SafeDivFail carrying (x, y); otherwise q with
\* q*y = x is returned, so safe_div(a*b, b) = a for every b # 0 whenever the
\* product a*b is the exact one (it has not wrapped in the type).
C23_SafeDiv ==
    (kpc = "done" /\ kIn.fn \in SafeDivVariants) =>
        /\ SafeDivContract
        /\ \A a \in SafeDivDomain(kIn.fn) :
               (kIn.args[2] # 0 /\ kIn.args[1] = a * kIn.args[2]) => kOut = KernOk(a)

\* The field variant has divided 6 by 2.
C23_Witness ==
    /\ kIn = KernelCall("safe_div", <<6, 2>>)
    /\ kOut = KernOk(3)

\* C24: igcdex(a, b) returns (x, y, g) with x*a + y*b = g = gcd(a, b) >= 0
\* for every sign and zero combination, and div_mod(n, m, p) with p > 1 and
\* gcd(m, p) = 1 returns x in [0, p) with m*x = n (mod p) for all integers
\* n and m.
C24_DivMod ==
    /\ (kpc = "done" /\ kIn.fn = "igcdex") =>
           LET a == kIn.args[1]
               b == kIn.args[2]
               r == kOut.val
           IN /\ r[1] * a + r[2] * b = r[3]
              /\ r[3] = RefGcd(Abs(a), Abs(b))
    /\ (kpc = "done" /\ kIn.fn = "div_mod" /\ RefGcd(Abs(kIn.args[2]), kIn.args[3]) = 1) =>
           LET n == kIn.args[1]
               m == kIn.args[2]
               p == kIn.args[3]
           IN /\ kOut.kind = "Ok"
              /\ kOut.val \in 0 .. (p - 1)
              /\ (m * kOut.val - n) % p = 0

\* 5 has been divided by -3 modulo 7.
C24_Witness ==
    /\ kIn = KernelCall("div_mod", <<5, -3, 7>>)
    /\ kOut = KernOk(3)

\* A point with its coordinates reduced modulo the prime
Reduced(A) == <<A[1] % PRIME, A[2] % PRIME>>

\* C28: for points on the curve, reduced or not, ec_add(A, B) with
\* Ax # Bx (mod p) and ec_double(P) with Py # 0 (mod p) return a point of the
\* curve with both coordinates in [0, p), the one the reference affine
\* addition gives, and ec_add(A, B) = ec_add(B, A).
C28_EcClosed ==
    /\ (kpc = "done" /\ kIn.fn = "ec_add"
            /\ (kIn.args[1][1] - kIn.args[2][1]) % PRIME # 0) =>
           /\ kOut.kind = "Ok"
           /\ kOut.val \in Felts \X Felts
           /\ RefOnCurve(kOut.val)
           /\ kOut.val = RefAdd(Reduced(kIn.args[1]), Reduced(kIn.args[2]))
           /\ kOut.val = ec_add(kIn.args[2], kIn.args[1], PRIME)
    /\ (kpc = "done" /\ kIn.fn = "ec_double" /\ kIn.args[1][2] % PRIME # 0) =>
           /\ kOut.kind = "Ok"
           /\ kOut.val \in Felts \X Felts
           /\ RefOnCurve(kOut.val)
           /\ kOut.val = RefAdd(Reduced(kIn.args[1]), Reduced(kIn.args[1]))

\* Two points of the curve, one of them unreduced, have been added.
C28_Witness ==
    /\ kIn = KernelCall("ec_add", <<<<1, 1>>, <<9, 3>>>>)
    /\ kOut.kind = "Ok"
    /\ kOut.val = RefAdd(<<1, 1>>, <<2, 3>>)

\* What C29 says of the slopes that are returned.
SlopesReturned ==
    /\ (kpc = "done" /\ kIn.fn = "line_slope"
            /\ (kIn.args[1][1] - kIn.args[2][1]) % PRIME # 0) =>
           /\ kOut.kind = "Ok"
           /\ kOut.val \in Felts
           /\ (kOut.val * (kIn.args[1][1] - kIn.args[2][1])
                   - (kIn.args[1][2] - kIn.args[2][2])) % PRIME = 0
    /\ (kpc = "done" /\ kIn.fn = "ec_double_slope" /\ kIn.args[1][2] % PRIME # 0) =>
           /\ kOut.kind = "Ok"
           /\ kOut.val \in Felts
           /\ (kOut.val * 2 * kIn.args[1][2]
                   - (3 * kIn.args[1][1] * kIn.args[1][1] + ALPHA)) % PRIME = 0

\* C29: line_slope and ec_double_slope return the slope in [0, p) whenever
\* Ax # Bx (mod p), respectively Py # 0 (mod p), and their precondition
\* assertions reject exactly the other inputs, unreduced coordinates
\* included.
C29_Slopes ==
    /\ SlopesReturned
    /\ (kpc = "done" /\ kIn.fn = "line_slope") =>
           (~line_slope_assert(kIn.args[1], kIn.args[2], PRIME)
                <=> (kIn.args[1][1] - kIn.args[2][1]) % PRIME = 0)
    /\ (kpc = "done" /\ kIn.fn = "ec_double_slope") =>
           (~ec_double_slope_assert(kIn.args[1], PRIME) <=> kIn.args[1][2] % PRIME = 0)

\* The part of C29 the code does satisfy: the slopes returned are the right
\* ones, the calls abort on exactly the other inputs, and the assertion of
\* ec_double_slope is exact.
C29_AbortsExactly ==
    /\ SlopesReturned
    /\ (kpc = "done" /\ kIn.fn = "line_slope") =>
           (kOut = KernPanic <=> (kIn.args[1][1] - kIn.args[2][1]) % PRIME = 0)
    /\ (kpc = "done" /\ kIn.fn = "ec_double_slope") =>
           /\ kOut = KernPanic <=> kIn.args[1][2] % PRIME = 0
           /\ ~ec_double_slope_assert(kIn.args[1], PRIME) <=> kIn.args[1][2] % PRIME = 0

LimbIndices == 0 .. (LIMBS_COUNT - 1)

\* C25: read_circuit_value after write_circuit_value at the same address
\* returns the value written, for every value of the 4 limbs' capacity; the
\* limbs are stored least-significant first, each below the limb base; a
\* value with a limb cell unwritten or holding an address reads as unknown.
C25_LimbRoundTrip ==
    /\ (kpc = "done" /\ kIn.fn = "write_circuit_value" /\ kOut.kind = "Ok") =>
           /\ kOut.val = kIn.args[2]
           /\ \A l \in LimbIndices :
                  /\ kLoc[l].tag = "int"
                  /\ kLoc[l].v < LimbBase
                  /\ kLoc[l].v = (kIn.args[2] \div Pow2(LIMB_BITS * l)) % LimbBase
    /\ (kpc = "done" /\ kIn.fn = "read_circuit_value") =>
           (kOut.val = Unknown <=> \E l \in LimbIndices : kIn.args[1][l].tag # "int")

\* 11 has been written to unwritten cells as the limbs 1, 1, 0, 1 and read
\* back.
C25_Witness ==
    /\ kIn = KernelCall("write_circuit_value", <<[c \in ValueCells |-> NoCell], 11>>)
    /\ kpc = "done"
    /\ <<kLoc[0].v, kLoc[1].v, kLoc[2].v, kLoc[3].v>> = <<1, 1, 0, 1>>
    /\ kOut = KernOk(11)

\* The operands of the add gate the pass was made over, and what it left
GateLhs == kIn.args[1]
GateRhs == kIn.args[2]
GateRes == kIn.args[3]
GateModulus == kIn.args[4]
GateLeft(k) == read_gate_value(kLoc, TheGate, 0, k)

\* What C26 says of a pass over a gate whose subtraction, if it is a
\* subtract gate, is the given one.
AddGateEvaluated(subtractions) ==
    (kpc = "done" /\ kIn.fn = "add_gate_pass") =>
        /\ (GateLhs # Unknown /\ GateRhs # Unknown /\ GateRes = Unknown) =>
               /\ kOut.kind = "next"
               /\ GateLeft(3) = (GateLhs + GateRhs) % GateModulus
        /\ (GateLhs = Unknown /\ GateRhs # Unknown /\ GateRes # Unknown
                /\ <<GateRes, GateRhs, GateModulus>> \in subtractions) =>
               /\ kOut.kind = "next"
               /\ GateLeft(1) = (GateRes - GateRhs + GateModulus) % GateModulus
               /\ GateLeft(1) \in 0 .. (GateModulus - 1)
               /\ (GateLeft(1) + GateRhs - GateRes) % GateModulus = 0
        /\ (GateLhs # Unknown /\ GateRhs = Unknown) =>
               /\ kOut.kind = "break"
               /\ kLoc = GateMemory(GateLhs, GateRhs, GateRes)

Subtractions == (GateValues \ {Unknown}) \X (GateValues \ {Unknown}) \X GateModuli

\* C26: for all stored operands, reduced or not, a forward gate writes
\* res = (lhs + rhs) mod modulus, a subtract gate writes
\* lhs = (res - rhs + modulus) mod modulus in [0, modulus), and a gate with
\* lhs and res known but rhs unknown is not evaluated.
C26_AddGate == AddGateEvaluated(Subtractions)

\* The part of C26 the code does satisfy: the same, for the subtract gates
\* with rhs <= res + modulus.
C26_AddGateNoUnderflow ==
    AddGateEvaluated({s \in Subtractions : s[2] <= s[1] + s[3]})

\* ------------------------------------------------------------------------
\* The two hints of secp/signature.rs that share a scope
\* ------------------------------------------------------------------------
MaxHints == 2

\* The ids pack to a big integer or cannot be read; each constant is in the
\* table or missing, N is between 0 and 7; the scope is empty or holds what
\* hints run before have left.
InitHint ==
    LET PackedValues == {Absent, Present(-3), Present(0), Present(1), Present(2), Present(5)}
        ConstantTables ==
            {[name \in {"BASE_86", "N0", "N1", "N2"} |->
                  IF name = "BASE_86" THEN base ELSE IF name = "N0" THEN n0
                  ELSE IF name = "N1" THEN n1 ELSE n2] :
                base \in {Absent, Present(2)},
                n0 \in {Absent, Present(0), Present(1)},
                n1 \in {Absent, Present(0), Present(1)},
                n2 \in {Absent, Present(0), Present(1)}}
        EmptyScope == [name \in {"a", "b", "value", "res"} |-> Absent]
        Scopes ==
            {EmptyScope,
             [EmptyScope EXCEPT !["a"] = Present(0), !["b"] = Present(1),
                                !["res"] = Present(1)],
             [EmptyScope EXCEPT !["a"] = Present(1), !["b"] = Present(2)],
             [EmptyScope EXCEPT !["a"] = Present(2), !["b"] = Present(3),
                                !["res"] = Present(3), !["value"] = Present(4)]}
    IN /\ memory = [a \in SegOffsets |-> NoCell]
       /\ deduced = [a \in OutputOffsets |-> NoValue]
       /\ EcIdle
       /\ CircIdle
       /\ RefIdle
       /\ KernIdle
       /\ ids \in [{"a", "b"} -> PackedValues]
       /\ constants \in ConstantTables
       /\ exec_scopes \in Scopes
       /\ hpc = <<>>
       /\ hOut = [kind |-> "pending", info |-> <<>>]

\* A hint runs when the run has not been aborted by a panic.
HintRuns(name, r) ==
    /\ Len(hpc) < MaxHints
    /\ hOut.kind # "panic"
    /\ hpc' = Append(hpc, [hint |-> name, kind |-> r.out.kind])
    /\ hOut' = r.out
    /\ exec_scopes' = r.scopes
    /\ UNCHANGED <<memory, deduced, ecVars, circVars, refVars, kernVars, ids, constants>>

DivModNPackedDivmod ==
    HintRuns("div_mod_n_packed_divmod", div_mod_n_packed_divmod(ids, exec_scopes, constants))

DivModNSafeDiv ==
    HintRuns("div_mod_n_safe_div", div_mod_n_safe_div(exec_scopes, constants))

NextHint ==
    \/ DivModNPackedDivmod
    \/ DivModNSafeDiv

SpecHint == InitHint /\ [][NextHint]_vars

\* The hint that has run last, and the one this step runs
LastHint == IF hpc = <<>> THEN [hint |-> "none", kind |-> "none"] ELSE hpc[Len(hpc)]
HintStep(name) == Len(hpc') = Len(hpc) + 1 /\ hpc'[Len(hpc')].hint = name

\* C30: a successful div_mod_n_packed_divmod leaves a, b and
\* value = res = div_mod(a, b, N) in the scope; a div_mod_n_safe_div that
\* follows it succeeds, with value = (res*b - a) / N and no remainder;
\* div_mod_n_safe_div without a, b and res in scope, or with a constant
\* missing, fails and leaves the scope as it was.
C30_TwoStepProtocol ==
    [][/\ (HintStep("div_mod_n_packed_divmod") /\ hOut'.kind = "Ok") =>
              /\ exec_scopes'["a"] = ids["a"]
              /\ exec_scopes'["b"] = ids["b"]
              /\ exec_scopes'["value"] = exec_scopes'["res"]
              /\ exec_scopes'["res"].some
              /\ exec_scopes'["res"].v \in 0 .. (secp_n(constants).n - 1)
              /\ (exec_scopes'["res"].v * ids["b"].v - ids["a"].v) % secp_n(constants).n = 0
       /\ (HintStep("div_mod_n_safe_div")
               /\ LastHint = [hint |-> "div_mod_n_packed_divmod", kind |-> "Ok"]) =>
              /\ hOut'.kind = "Ok"
              /\ exec_scopes'["value"].some
              /\ exec_scopes'["value"].v * secp_n(constants).n
                     = exec_scopes["res"].v * exec_scopes["b"].v - exec_scopes["a"].v
              /\ \A name \in {"a", "b", "res"} : exec_scopes'[name] = exec_scopes[name]
       /\ (HintStep("div_mod_n_safe_div")
               /\ \/ \E name \in {"a", "b", "res"} : ~exec_scopes[name].some
                  \/ \E name \in DOMAIN constants : ~constants[name].some) =>
              /\ hOut'.kind \notin {"Ok", "panic"}
              /\ exec_scopes' = exec_scopes]_vars

\* The two hints have run one after the other on a = 5, b = 2, N = 7.
C30_Witness ==
    /\ Len(hpc) = 2
    /\ hpc[1] = [hint |-> "div_mod_n_packed_divmod", kind |-> "Ok"]
    /\ hpc[2] = [hint |-> "div_mod_n_safe_div", kind |-> "Ok"]
    /\ ids = [name \in {"a", "b"} |-> IF name = "a" THEN Present(5) ELSE Present(2)]
    /\ secp_n(constants).n = 7
    /\ exec_scopes["res"] = Present(6)
    /\ exec_scopes["value"] = Present(1)

\* C21: no operation of the core aborts the run, every failure is a
\* returned error: here, of the two hints.
C21_NoAbort == hOut.kind # "panic"

=============================================================================
